---- MODULE Spec2Model ----
(***************************************************************************)
(* csvinsight: column-by-column profiling of delimited text.               *)
(*                                                                         *)
(* A string is a sequence of character codes, so that splitting, joining,  *)
(* line reading and byte-wise comparison are computed, not assumed.        *)
(*                                                                         *)
(* Each behaviour runs one program (prog) on one input drawn in Init:      *)
(*   Spec           the row dispatchers: split.split_in_memory,            *)
(*                  stream.read, split.split (threaded) and the legacy     *)
(*                  csvinsight.ColumnSplitter                              *)
(*   SpecSummarize  summarize.summarize_sorted over run_length_encode      *)
(*   SpecJob        cli.main: the in-memory and the partitioned pipeline   *)
(***************************************************************************)
EXTENDS Integers, Sequences, FiniteSets, TLC

VARIABLES
    prog,           \* the program this behaviour runs
    header,         \* the CSV header: a sequence of column names
    list_columns,   \* names of the columns holding lists
    rows,           \* the rows the reader yields after the header
    batch_size,     \* _populate_queues' batch_size argument
    pc,             \* position of the main task
    i,              \* number of rows (or batches) the main task has consumed
    histogram,      \* row length -> count (collections.Counter)
    columns,        \* split_in_memory: per column, the list of values
    stats,          \* stream.read: per column, the Column object
    qnext,          \* split: index of the next queue the dispatcher puts on
    queues,         \* split: per column, the items on the Queue
    unfinished,     \* split: per column, Queue.unfinished_tasks
    wpc,            \* split: per column, position of the WriterThread
    wlines,         \* split: per column, the item the WriterThread holds
    files,          \* split: per column, the bytes written to the file
    closed,         \* split: per column, whether the file has been closed
    sent,           \* split: per column, the batches put on the queue so far
    fout,           \* ColumnSplitter._fout: column name -> bytes written
    it,             \* the sequence the program consumes: summarize: the iterator's
                    \* values; TopN: the pairs pushed; _split_large_file: the
                    \* file's lines; _aggregate_histograms: the histograms
    pos,            \* number of elements of `it` consumed
    run,            \* run_length_encode: [value, length] of the current run
    emitted,        \* run_length_encode: the pairs yielded so far
    acc,            \* summarize_sorted: its local variables; TopN: the object
    job,            \* cli.main: the job's options, part files and per-part results
    result,         \* what the program returned
    error           \* the exception the program ended with, or NoError

inputVars == <<prog, header, list_columns, rows, batch_size>>
memVars == <<columns, stats>>
splitVars == <<qnext, queues, unfinished, wpc, wlines, files, closed, sent>>
sumVars == <<it, pos, run, emitted, acc>>
vars == <<inputVars, job, pc, i, histogram, memVars, splitVars, fout, sumVars,
          result, error>>

(***************************************************************************)
(* Bounds of the model.                                                    *)
(***************************************************************************)
MaxRows == 3        \* rows after the header
MaxBatch == 2       \* explicit batch sizes 1..MaxBatch
MaxStream == 4      \* values in a summarized stream
MaxLinesPerPart == 2    \* --lines-per-part is 1..MaxLinesPerPart
MaxMostCommon == 2  \* --most-common is 1..MaxMostCommon
MaxFileLines == 4   \* physical lines of a file handed to _split_large_file
MaxHistograms == 3  \* histograms handed to _aggregate_histograms
MaxCount == 2       \* counts 1..MaxCount in a histogram handed to it
MaxPushes == 3      \* pushes into one TopN
MaxLimit == 2       \* TopN limits 1..MaxLimit
MaxFrequency == 3   \* pushed frequencies 1..MaxFrequency

(***************************************************************************)
(* Program constants.                                                      *)
(***************************************************************************)
NEWLINE == 10
LIST_SEPARATOR == 59
DELIMITER == 124
ESCAPECHAR == 92
DEFAULT_BATCH_SIZE == 10000
MAX_QUEUE_SIZE == 10
MOST_COMMON == 20
\* sys.maxsize; only compared with value lengths, so the largest integer TLC
\* represents stands for it.
sys_maxsize == 2147483647

NoError == [type |-> "None", refs |-> {}]
NoJob ==
    [tiny |-> TRUE, lines_per_part |-> 0, most_common |-> 0, part_paths |-> <<>>,
     split_results |-> <<>>, resources |-> {}]

(***************************************************************************)
(* Strings.                                                                *)
(***************************************************************************)
Min(a, b) == IF a <= b THEN a ELSE b
Max(a, b) == IF a >= b THEN a ELSE b

RECURSIVE Concat(_)
Concat(ss) == IF ss = <<>> THEN <<>> ELSE Head(ss) \o Concat(Tail(ss))

RECURSIVE SumSeq(_)
SumSeq(ns) == IF ns = <<>> THEN 0 ELSE Head(ns) + SumSeq(Tail(ns))

\* str.split(sep) for a one-character separator: never the empty list.
RECURSIVE StrSplit(_, _)
StrSplit(s, sep) ==
    IF \A k \in 1..Len(s) : s[k] # sep
    THEN <<s>>
    ELSE LET k == CHOOSE k \in 1..Len(s) :
                      s[k] = sep /\ \A m \in 1..(k - 1) : s[m] # sep
         IN <<SubSeq(s, 1, k - 1)>> \o StrSplit(SubSeq(s, k + 1, Len(s)), sep)

\* sep.join(parts)
RECURSIVE StrJoin(_, _)
StrJoin(parts, sep) ==
    IF parts = <<>> THEN <<>>
    ELSE IF Len(parts) = 1 THEN parts[1]
    ELSE parts[1] \o <<sep>> \o StrJoin(Tail(parts), sep)

\* s.rstrip(ch)
RECURSIVE RStrip(_, _)
RStrip(s, ch) ==
    IF s # <<>> /\ s[Len(s)] = ch THEN RStrip(SubSeq(s, 1, Len(s) - 1), ch) ELSE s

\* s < t for Python strings: code point by code point, a proper prefix first.
RECURSIVE StrLess(_, _)
StrLess(s, t) ==
    IF t = <<>> THEN FALSE
    ELSE IF s = <<>> THEN TRUE
    ELSE IF s[1] # t[1] THEN s[1] < t[1]
    ELSE StrLess(Tail(s), Tail(t))

\* Iterating a file object: one line per terminator, the terminator kept;
\* a last line without terminator is still a line.
RECURSIVE FileLines(_)
FileLines(bytes) ==
    IF bytes = <<>> THEN <<>>
    ELSE IF \A k \in 1..Len(bytes) : bytes[k] # NEWLINE THEN <<bytes>>
    ELSE LET k == CHOOSE k \in 1..Len(bytes) :
                      bytes[k] = NEWLINE /\ \A m \in 1..(k - 1) : bytes[m] # NEWLINE
         IN <<SubSeq(bytes, 1, k)>> \o FileLines(SubSeq(bytes, k + 1, Len(bytes)))

\* sorted(values), and `LC_ALL=C sort`: ascending by StrLess, stable.
RECURSIVE Insert(_, _)
Insert(sorted, v) ==
    IF sorted = <<>> THEN <<v>>
    ELSE IF StrLess(v, Head(sorted)) THEN <<v>> \o sorted
    ELSE <<Head(sorted)>> \o Insert(Tail(sorted), v)

RECURSIVE Sorted(_)
Sorted(values) ==
    IF values = <<>> THEN <<>>
    ELSE Insert(Sorted(SubSeq(values, 1, Len(values) - 1)), values[Len(values)])

\* collections.Counter: a missing key counts 0.
Count(counter, key) == IF key \in DOMAIN counter THEN counter[key] ELSE 0

\* CounterAdd with `=` written for `+=`.
CounterSet(counter, key, n) ==
    [k \in DOMAIN counter \cup {key} |-> IF k = key THEN n ELSE counter[k]]

CounterAdd(counter, key, n) ==
    [k \in DOMAIN counter \cup {key} |->
        IF k = key THEN Count(counter, k) + n ELSE counter[k]]

EmptyCounter == [k \in {} |-> 0]

RECURSIVE CounterTotal(_)
CounterTotal(counter) ==
    IF DOMAIN counter = {} THEN 0
    ELSE LET k == CHOOSE k \in DOMAIN counter : TRUE
         IN counter[k] + CounterTotal([m \in DOMAIN counter \ {k} |-> counter[m]])

(***************************************************************************)
(* Inputs.                                                                 *)
(***************************************************************************)
Headers == {<<"value", "list">>, <<"list", "list">>}
ListColumnChoices == {{}, {"list"}}

\* Rows against a header of two names: ("a", "a;b") and ("", "") fit it,
\* ("a",) and ("a", "", "a;b") do not.
WellFormedRows == {<<<<97>>, <<97, 59, 98>>>>, <<<<>>, <<>>>>}
MalformedRows == {<<<<97>>>>, <<<<97>>, <<>>, <<97, 59, 98>>>>}
Rows == WellFormedRows \cup MalformedRows

RECURSIVE SeqsUpTo(_, _)
SeqsUpTo(S, n) ==
    IF n = 0 THEN {<<>>}
    ELSE LET shorter == SeqsUpTo(S, n - 1)
         IN shorter \cup {Append(s, x) : s \in {t \in shorter : Len(t) = n - 1}, x \in S}

Readers == SeqsUpTo(Rows, MaxRows)
BatchSizes == (1..MaxBatch) \cup {DEFAULT_BATCH_SIZE}

IsList(hdr, lcs, j) == hdr[j] \in lcs

(***************************************************************************)
(* split.split_in_memory                                                   *)
(***************************************************************************)
\* One cell's atomic values (split.py:213-216).
CellValues(hdr, lcs, j, val) ==
    IF IsList(hdr, lcs, j) THEN StrSplit(val, LIST_SEPARATOR) ELSE <<val>>

\* The body of the loop over rows (split.py:208-216) on state [histogram, columns].
SplitInMemoryRow(hdr, lcs, st, row) ==
    LET h == CounterAdd(st.histogram, Len(row), 1)
    IN IF Len(row) # Len(hdr)
       THEN [histogram |-> h, columns |-> st.columns]
       ELSE [histogram |-> h,
             columns |-> [j \in 1..Len(hdr) |->
                             st.columns[j] \o CellValues(hdr, lcs, j, row[j])]]

RECURSIVE SplitInMemoryFrom(_, _, _, _)
SplitInMemoryFrom(hdr, lcs, st, rs) ==
    IF rs = <<>> THEN st
    ELSE SplitInMemoryFrom(hdr, lcs, SplitInMemoryRow(hdr, lcs, st, Head(rs)), Tail(rs))

\* split_in_memory(reader) after the header has been read.
SplitInMemory(hdr, lcs, rs) ==
    SplitInMemoryFrom(hdr, lcs,
        [histogram |-> EmptyCounter, columns |-> [j \in 1..Len(hdr) |-> <<>>]], rs)

\* header = next(reader): the reader yields its first item.
SplitInMemoryHeader ==
    /\ prog = "split_in_memory"
    /\ pc = "header"
    /\ it # <<>>
    /\ columns' = [j \in 1..Len(Head(it)) |-> <<>>]
    /\ pc' = "loop"
    /\ UNCHANGED <<inputVars, job, i, histogram, stats, splitVars, fout, sumVars, result, error>>

\* header = next(reader) on a reader that yields nothing: StopIteration, turned
\* into ValueError('Reader may not be empty').
SplitInMemoryEmpty ==
    /\ prog = "split_in_memory"
    /\ pc = "header"
    /\ it = <<>>
    /\ error' = [type |-> "ValueError", refs |-> {}]
    /\ pc' = "done"
    /\ UNCHANGED <<inputVars, job, i, histogram, memVars, splitVars, fout, sumVars, result>>

SplitInMemoryStep ==
    /\ prog = "split_in_memory"
    /\ pc = "loop"
    /\ i < Len(rows)
    /\ LET st == SplitInMemoryRow(header, list_columns,
                     [histogram |-> histogram, columns |-> columns], rows[i + 1])
       IN /\ histogram' = st.histogram
          /\ columns' = st.columns
    /\ i' = i + 1
    /\ UNCHANGED <<inputVars, job, pc, stats, splitVars, fout, sumVars, result, error>>

SplitInMemoryReturn ==
    /\ prog = "split_in_memory"
    /\ pc = "loop"
    /\ i = Len(rows)
    /\ pc' = "done"
    /\ result' = [header |-> header, histogram |-> histogram, columns |-> columns]
    /\ UNCHANGED <<inputVars, job, i, histogram, memVars, splitVars, fout, sumVars, error>>

(***************************************************************************)
(* stream.Column and stream.read                                           *)
(***************************************************************************)
NewColumn ==
    [max_len |-> 0, min_len |-> sys_maxsize, sum_len |-> 0,
     num_values |-> 0, num_empty |-> 0]

\* add() that leaves empty values out of the minimum length.
ColumnAddMinOfFilled(col, value) ==
    [max_len |-> Max(col.max_len, Len(value)),
     min_len |-> IF value = <<>> THEN col.min_len ELSE Min(col.min_len, Len(value)),
     sum_len |-> col.sum_len + Len(value),
     num_values |-> col.num_values + 1,
     num_empty |-> IF value = <<>> THEN col.num_empty + 1 ELSE col.num_empty]

ColumnAdd(col, value) ==
    [max_len |-> Max(col.max_len, Len(value)),
     min_len |-> Min(col.min_len, Len(value)),
     sum_len |-> col.sum_len + Len(value),
     num_values |-> col.num_values + 1,
     num_empty |-> IF value = <<>> THEN col.num_empty + 1 ELSE col.num_empty]

RECURSIVE ColumnExtend(_, _)
ColumnExtend(col, values) ==
    IF values = <<>> THEN col
    ELSE ColumnExtend(ColumnAdd(col, Head(values)), Tail(values))

\* A quotient of floats is kept as the pair of its operands.
Ratio(n, d) == [num |-> n, den |-> d]

ColumnSummarize(col) ==
    [num_values |-> col.num_values,
     num_fills |-> col.num_values - col.num_empty,
     fill_rate |-> Ratio(100 * (col.num_values - col.num_empty), col.num_values),
     max_len |-> col.max_len,
     min_len |-> col.min_len,
     avg_len |-> Ratio(col.sum_len, col.num_values),
     num_uniques |-> -1,
     most_common |-> <<>>]

\* The body of the loop over rows (stream.py:80-89) on state [histogram, columns].
StreamReadRow(hdr, lcs, st, row) ==
    LET h == CounterAdd(st.histogram, Len(row), 1)
    IN IF Len(row) # Len(hdr)
       THEN [histogram |-> h, columns |-> st.columns]
       ELSE [histogram |-> h,
             columns |-> [j \in 1..Len(hdr) |->
                 IF IsList(hdr, lcs, j)
                 THEN ColumnExtend(st.columns[j], StrSplit(row[j], LIST_SEPARATOR))
                 ELSE ColumnAdd(st.columns[j], row[j])]]

StreamReadStep ==
    /\ prog = "stream_read"
    /\ pc = "loop"
    /\ i < Len(rows)
    /\ LET st == StreamReadRow(header, list_columns,
                     [histogram |-> histogram, columns |-> stats], rows[i + 1])
       IN /\ histogram' = st.histogram
          /\ stats' = st.columns
    /\ i' = i + 1
    /\ UNCHANGED <<inputVars, job, pc, columns, splitVars, fout, sumVars, result, error>>

\* The return statement: a column without values divides by zero in summarize().
StreamReadReturn ==
    /\ prog = "stream_read"
    /\ pc = "loop"
    /\ i = Len(rows)
    /\ pc' = "done"
    /\ IF \E j \in 1..Len(header) : stats[j].num_values = 0
       THEN /\ error' = [type |-> "ZeroDivisionError", refs |-> {}]
            /\ UNCHANGED result
       ELSE /\ result' = [header |-> header, histogram |-> histogram,
                          columns |-> [j \in 1..Len(header) |-> ColumnSummarize(stats[j])]]
            /\ UNCHANGED error
    /\ UNCHANGED <<inputVars, job, i, histogram, memVars, splitVars, fout, sumVars>>

(***************************************************************************)
(* split.split: _populate_queues feeding one WriterThread per column       *)
(***************************************************************************)
\* _make_batches without the batch that is left when the iterable ends.
RECURSIVE MakeBatchesFromFullOnly(_, _, _)
MakeBatchesFromFullOnly(batch, iterable, size) ==
    IF iterable = <<>>
    THEN <<>>
    ELSE IF Len(batch) = size
         THEN <<batch>> \o MakeBatchesFromFullOnly(<<Head(iterable)>>, Tail(iterable), size)
         ELSE MakeBatchesFromFullOnly(Append(batch, Head(iterable)), Tail(iterable), size)

\* _make_batches(iterable, batch_size), started with an empty batch.
RECURSIVE MakeBatchesFrom(_, _, _)
MakeBatchesFrom(batch, iterable, size) ==
    IF iterable = <<>>
    THEN IF batch # <<>> THEN <<batch>> ELSE <<>>
    ELSE IF Len(batch) = size
         THEN <<batch>> \o MakeBatchesFrom(<<Head(iterable)>>, Tail(iterable), size)
         ELSE MakeBatchesFrom(Append(batch, Head(iterable)), Tail(iterable), size)

_make_batches(iterable, size) == MakeBatchesFrom(<<>>, iterable, size)

\* histogram.update(len(row) for row in batch)
RECURSIVE HistogramUpdate(_, _)
HistogramUpdate(h, batch) ==
    IF batch = <<>> THEN h
    ELSE HistogramUpdate(CounterAdd(h, Len(Head(batch)), 1), Tail(batch))

\* The values of column j in one batch (split.py:114-121): rows of another
\* length are skipped, a list cell is split.
RECURSIVE BatchColumn(_, _, _, _)
BatchColumn(hdr, lcs, j, batch) ==
    IF batch = <<>> THEN <<>>
    ELSE IF Len(hdr) # Len(Head(batch))
         THEN BatchColumn(hdr, lcs, j, Tail(batch))
         ELSE (IF IsList(hdr, lcs, j)
               THEN StrSplit(Head(batch)[j], LIST_SEPARATOR)
               ELSE <<Head(batch)[j]>>) \o BatchColumn(hdr, lcs, j, Tail(batch))

\* An item of a queue: a batch of values, or the sentinel.
QueueItem(values) == [sentinel |-> FALSE, lines |-> values]
SentinelItem == [sentinel |-> TRUE, lines |-> <<>>]

\* WriterThread._write_py3(lines)
WritePy3(lines) == StrJoin(lines, NEWLINE) \o <<NEWLINE>>

Batches == _make_batches(rows, batch_size)
NumColumns == Len(header)

\* The for statement takes the next batch: the histogram is updated and the
\* batch's columns are built.
PopulateBatch ==
    /\ prog = "split"
    /\ pc = "populate"
    /\ i < Len(Batches)
    /\ histogram' = HistogramUpdate(histogram, Batches[i + 1])
    /\ i' = i + 1
    /\ pc' = "put"
    /\ qnext' = 1
    /\ UNCHANGED <<inputVars, job, memVars, queues, unfinished, wpc, wlines, files,
                   closed, sent, fout, sumVars, result, error>>

\* queue.put(values) on a queue made without maxsize: it never blocks.
PopulatePutUnbounded ==
    /\ prog = "split"
    /\ pc = "put"
    /\ LET values == BatchColumn(header, list_columns, qnext, Batches[i])
       IN /\ queues' = [queues EXCEPT ![qnext] = Append(@, QueueItem(values))]
          /\ sent' = [sent EXCEPT ![qnext] = Append(@, values)]
    /\ unfinished' = [unfinished EXCEPT ![qnext] = @ + 1]
    /\ IF qnext < NumColumns
       THEN /\ qnext' = qnext + 1
            /\ UNCHANGED pc
       ELSE /\ qnext' = 1
            /\ pc' = "populate"
    /\ UNCHANGED <<inputVars, job, i, histogram, memVars, wpc, wlines, files, closed,
                   fout, sumVars, result, error>>

\* The sentinel put on the first queue only.
PopulateSentinelFirstOnly ==
    /\ prog = "split"
    /\ pc = "sentinel"
    /\ Len(queues[qnext]) < MAX_QUEUE_SIZE
    /\ queues' = [queues EXCEPT ![qnext] = Append(@, SentinelItem)]
    /\ unfinished' = [unfinished EXCEPT ![qnext] = @ + 1]
    /\ qnext' = 1
    /\ pc' = "join"
    /\ UNCHANGED <<inputVars, job, i, histogram, memVars, wpc, wlines, files, closed,
                   sent, fout, sumVars, result, error>>

\* queue.put(values): blocks while the queue is full.
PopulatePut ==
    /\ prog = "split"
    /\ pc = "put"
    /\ Len(queues[qnext]) < MAX_QUEUE_SIZE
    /\ LET values == BatchColumn(header, list_columns, qnext, Batches[i])
       IN /\ queues' = [queues EXCEPT ![qnext] = Append(@, QueueItem(values))]
          /\ sent' = [sent EXCEPT ![qnext] = Append(@, values)]
    /\ unfinished' = [unfinished EXCEPT ![qnext] = @ + 1]
    /\ IF qnext < NumColumns
       THEN /\ qnext' = qnext + 1
            /\ UNCHANGED pc
       ELSE /\ qnext' = 1
            /\ pc' = "populate"
    /\ UNCHANGED <<inputVars, job, i, histogram, memVars, wpc, wlines, files, closed,
                   fout, sumVars, result, error>>

\* The batches are exhausted.
PopulateEnd ==
    /\ prog = "split"
    /\ pc = "populate"
    /\ i = Len(Batches)
    /\ pc' = "sentinel"
    /\ qnext' = 1
    /\ UNCHANGED <<inputVars, job, i, histogram, memVars, queues, unfinished, wpc,
                   wlines, files, closed, sent, fout, sumVars, result, error>>

\* queue.put(SENTINEL); after the last one _populate_queues returns.
PopulateSentinel ==
    /\ prog = "split"
    /\ pc = "sentinel"
    /\ Len(queues[qnext]) < MAX_QUEUE_SIZE
    /\ queues' = [queues EXCEPT ![qnext] = Append(@, SentinelItem)]
    /\ unfinished' = [unfinished EXCEPT ![qnext] = @ + 1]
    /\ IF qnext < NumColumns
       THEN /\ qnext' = qnext + 1
            /\ UNCHANGED pc
       ELSE /\ qnext' = 1
            /\ pc' = "join"
    /\ UNCHANGED <<inputVars, job, i, histogram, memVars, wpc, wlines, files, closed,
                   sent, fout, sumVars, result, error>>

\* queue.join() for each queue in turn, then split returns.
SplitJoin ==
    /\ prog = "split"
    /\ pc = "join"
    /\ unfinished[qnext] = 0
    /\ IF qnext < NumColumns
       THEN /\ qnext' = qnext + 1
            /\ UNCHANGED <<pc, result>>
       ELSE /\ qnext' = 1
            /\ pc' = "done"
            /\ result' = [histogram |-> histogram, paths |-> [j \in 1..NumColumns |-> j]]
    /\ UNCHANGED <<inputVars, job, i, histogram, memVars, queues, unfinished, wpc,
                   wlines, files, closed, sent, fout, sumVars, error>>

\* lines = self._queue.get(): blocks while the queue is empty.
WriterGet(c) ==
    /\ prog = "split"
    /\ wpc[c] = "get"
    /\ queues[c] # <<>>
    /\ wlines' = [wlines EXCEPT ![c] = Head(queues[c])]
    /\ queues' = [queues EXCEPT ![c] = Tail(@)]
    /\ wpc' = [wpc EXCEPT ![c] = IF Head(queues[c]).sentinel THEN "task_done" ELSE "write"]
    /\ UNCHANGED <<inputVars, job, pc, i, histogram, memVars, qnext, unfinished, files,
                   closed, sent, fout, sumVars, result, error>>

\* self.write(lines) with one file for all the columns, as if _open_temp left
\* column_id out of the path.
WriterWriteShared(c) ==
    /\ prog = "split"
    /\ wpc[c] = "write"
    /\ files' = [files EXCEPT ![1] = @ \o WritePy3(wlines[c].lines)]
    /\ wpc' = [wpc EXCEPT ![c] = "task_done"]
    /\ UNCHANGED <<inputVars, job, pc, i, histogram, memVars, qnext, queues, unfinished,
                   wlines, closed, sent, fout, sumVars, result, error>>

\* self.write(lines)
WriterWrite(c) ==
    /\ prog = "split"
    /\ wpc[c] = "write"
    /\ files' = [files EXCEPT ![c] = @ \o WritePy3(wlines[c].lines)]
    /\ wpc' = [wpc EXCEPT ![c] = "task_done"]
    /\ UNCHANGED <<inputVars, job, pc, i, histogram, memVars, qnext, queues, unfinished,
                   wlines, closed, sent, fout, sumVars, result, error>>

\* self._queue.task_done(); the loop ends once lines is the sentinel.
WriterTaskDone(c) ==
    /\ prog = "split"
    /\ wpc[c] = "task_done"
    /\ unfinished' = [unfinished EXCEPT ![c] = @ - 1]
    /\ wpc' = [wpc EXCEPT ![c] = IF wlines[c].sentinel THEN "close" ELSE "get"]
    /\ UNCHANGED <<inputVars, job, pc, i, histogram, memVars, qnext, queues, wlines,
                   files, closed, sent, fout, sumVars, result, error>>

\* self._fout.close()
WriterClose(c) ==
    /\ prog = "split"
    /\ wpc[c] = "close"
    /\ closed' = [closed EXCEPT ![c] = TRUE]
    /\ wpc' = [wpc EXCEPT ![c] = "exit"]
    /\ UNCHANGED <<inputVars, job, pc, i, histogram, memVars, qnext, queues, unfinished,
                   wlines, files, sent, fout, sumVars, result, error>>

\* The values a reader of column file c gets: one per line, the terminator removed
\* (summarize.py:112).
ReadValues(bytes) ==
    LET lines == FileLines(bytes)
    IN [k \in 1..Len(lines) |-> RStrip(lines[k], NEWLINE)]

(***************************************************************************)
(* csvinsight.ColumnSplitter (the legacy map stage)                        *)
(***************************************************************************)
\* The text line a row comes from: the cells joined by the delimiter.
LineOf(row) == StrJoin(row, DELIMITER) \o <<NEWLINE>>

\* row = line.rstrip(b'\n').split(self._delimiter)
ParseLine(line) == StrSplit(RStrip(line, NEWLINE), DELIMITER)

\* self._write(column_name, value) for each value in turn: the file of a
\* column name is opened at its first write.
RECURSIVE WriteValues(_, _, _)
WriteValues(fo, name, values) ==
    IF values = <<>> THEN fo
    ELSE LET old == IF name \in DOMAIN fo THEN fo[name] ELSE <<>>
             new == [n \in DOMAIN fo \cup {name} |->
                        IF n = name THEN old \o Head(values) \o <<NEWLINE>> ELSE fo[n]]
         IN WriteValues(new, name, Tail(values))

\* The loop over the columns of a row (csvinsight.py:63-69), from column j on.
RECURSIVE WriteRow(_, _, _, _, _)
WriteRow(fo, hdr, lfs, row, j) ==
    IF j > Len(hdr) THEN fo
    ELSE LET values == IF hdr[j] \in lfs
                       THEN StrSplit(row[j], LIST_SEPARATOR)
                       ELSE <<row[j]>>
         IN WriteRow(WriteValues(fo, hdr[j], values), hdr, lfs, row, j + 1)

\* SplitLine without the early return: zip(header, row) pairs as many columns
\* as the shorter of the two has.
SplitLineNoSkip(hdr, lfs, st, line) ==
    LET row == ParseLine(line)
        n == Min(Len(hdr), Len(row))
    IN [counter |-> CounterAdd(st.counter, Len(row), 1),
        fout |-> WriteRow(st.fout, SubSeq(hdr, 1, n), lfs, row, 1)]

\* ColumnSplitter.split_line(line) on state [counter, fout].
SplitLine(hdr, lfs, st, line) ==
    LET row == ParseLine(line)
        counter == CounterAdd(st.counter, Len(row), 1)
    IN IF Len(row) # Len(hdr)
       THEN [counter |-> counter, fout |-> st.fout]
       ELSE [counter |-> counter, fout |-> WriteRow(st.fout, hdr, lfs, row, 1)]

SplitLineStep ==
    /\ prog = "split_line"
    /\ pc = "loop"
    /\ i < Len(rows)
    /\ LET st == SplitLine(header, list_columns,
                     [counter |-> histogram, fout |-> fout], LineOf(rows[i + 1]))
       IN /\ histogram' = st.counter
          /\ fout' = st.fout
    /\ i' = i + 1
    /\ UNCHANGED <<inputVars, job, pc, memVars, splitVars, sumVars, result, error>>

\* The worker has read the terminating None: splitter.close().
SplitLineClose ==
    /\ prog = "split_line"
    /\ pc = "loop"
    /\ i = Len(rows)
    /\ pc' = "done"
    /\ result' = [counter |-> histogram]
    /\ UNCHANGED <<inputVars, job, i, histogram, memVars, splitVars, fout, sumVars, error>>

\* The file worker w of map() opens for a column name:
\* output_dir/<column_name>.<w> (csvinsight.py:87-89, 105).
_NUM_WORKERS == 8
_open_file(column_name, output_dir, suffix) ==
    [output_dir |-> output_dir, column_name |-> column_name, suffix |-> suffix]

MapWorkerFiles(hdr, w) == {_open_file(hdr[j], "csv_insight.out", w) : j \in DOMAIN hdr}

(***************************************************************************)
(* summarize.TopN                                                          *)
(***************************************************************************)
\* (frequency, value) tuples compare by frequency, then by value.
EntryLess(a, b) ==
    \/ a.frequency < b.frequency
    \/ a.frequency = b.frequency /\ StrLess(a.value, b.value)

\* HeapPush ordering the entries by frequency alone.
RECURSIVE HeapPushByFrequency(_, _)
HeapPushByFrequency(heap, e) ==
    IF heap = <<>> THEN <<e>>
    ELSE IF e.frequency < Head(heap).frequency THEN <<e>> \o heap
    ELSE <<Head(heap)>> \o HeapPushByFrequency(Tail(heap), e)

\* heapq keeps the smallest tuple at _heap[0] and pops in ascending order: the
\* heap is kept as the ascending sequence of its entries.
RECURSIVE HeapPush(_, _)
HeapPush(heap, e) ==
    IF heap = <<>> THEN <<e>>
    ELSE IF EntryLess(e, Head(heap)) THEN <<e>> \o heap
    ELSE <<Head(heap)>> \o HeapPush(Tail(heap), e)

HeapReplace(heap, e) == HeapPush(Tail(heap), e)

\* TopNPush replacing the lowest entry of a full heap whatever the frequency.
TopNPushAlways(heap, limit, frequency, value) ==
    LET e == [frequency |-> frequency, value |-> value]
    IN IF Len(heap) < limit THEN HeapPush(heap, e) ELSE HeapPush(Tail(heap), e)

\* TopNPush with `>=` written for `>`.
TopNPushAdmitEqual(heap, limit, frequency, value) ==
    LET e == [frequency |-> frequency, value |-> value]
    IN IF Len(heap) < limit
       THEN HeapPush(heap, e)
       ELSE IF frequency >= heap[1].frequency THEN HeapPush(Tail(heap), e) ELSE heap

\* TopN.push(frequency, value)
TopNPush(heap, limit, frequency, value) ==
    LET e == [frequency |-> frequency, value |-> value]
    IN IF Len(heap) < limit
       THEN HeapPush(heap, e)
       ELSE IF frequency > heap[1].frequency THEN HeapReplace(heap, e) ELSE heap

\* TopN.to_list(): the entries popped one by one.
TopNToList(heap) == heap

Reversed(s) == [k \in 1..Len(s) |-> s[Len(s) + 1 - k]]

\* TopN.__init__(limit)
NewTopN(limit) == [heap |-> <<>>, limit |-> limit]

\* The (frequency, value) pairs a caller pushes: "a" and "b" with small
\* frequencies, so that equal frequencies and equal pairs occur.
TopNValues == {<<97>>, <<98>>}
TopNEntries == [frequency : 1..MaxFrequency, value : TopNValues]
PushSequences == SeqsUpTo(TopNEntries, MaxPushes)

\* topn.push(frequency, value) with the caller's next pair.
TopNPushStep ==
    /\ prog = "TopN"
    /\ pos < Len(it)
    /\ acc' = [acc EXCEPT !.heap = TopNPush(acc.heap, acc.limit, it[pos + 1].frequency,
                                            it[pos + 1].value)]
    /\ pos' = pos + 1
    /\ pc' = "pushed"
    /\ UNCHANGED <<inputVars, job, i, histogram, memVars, splitVars, fout, it, run,
                   emitted, result, error>>

\* topn.to_list(): pops a deep copy of the heap, the heap itself is left alone.
TopNToListStep ==
    /\ prog = "TopN"
    /\ result' = [to_list |-> TopNToList(acc.heap)]
    /\ pc' = "listed"
    /\ UNCHANGED <<inputVars, job, i, histogram, memVars, splitVars, fout, sumVars, error>>

InitTopN ==
    /\ prog = "TopN"
    /\ header = <<>>
    /\ list_columns = {}
    /\ rows = <<>>
    /\ batch_size = DEFAULT_BATCH_SIZE
    /\ pc = "new"
    /\ i = 0
    /\ histogram = EmptyCounter
    /\ columns = <<>>
    /\ stats = <<>>
    /\ qnext = 1
    /\ queues = <<>>
    /\ unfinished = <<>>
    /\ wpc = <<>>
    /\ wlines = <<>>
    /\ files = <<>>
    /\ closed = <<>>
    /\ sent = <<>>
    /\ fout = [n \in {} |-> <<>>]
    /\ job = NoJob
    /\ it \in PushSequences
    /\ pos = 0
    /\ run = [value |-> <<>>, length |-> 0]
    /\ emitted = <<>>
    /\ acc \in {NewTopN(limit) : limit \in 1..MaxLimit}
    /\ result = [none |-> TRUE]
    /\ error = NoError

NextTopN ==
    \/ TopNPushStep
    \/ TopNToListStep

SpecTopN == InitTopN /\ [][NextTopN]_vars

(***************************************************************************)
(* summarize.summarize_sorted over summarize.run_length_encode             *)
(***************************************************************************)
\* The locals of summarize_sorted before its loop (summarize.py:54-60).
NewAcc ==
    [num_values |-> 0, num_uniques |-> 0, num_empty |-> 0, max_len |-> 0,
     min_len |-> sys_maxsize, sum_len |-> 0, topn |-> <<>>]

\* SummarizeBody with the value length not weighted by the run length.
SummarizeBodyUnweighted(a, run_value, run_length) ==
    [num_empty |-> IF Len(run_value) = 0 THEN run_length ELSE a.num_empty,
     num_values |-> a.num_values + run_length,
     num_uniques |-> a.num_uniques + 1,
     max_len |-> Max(a.max_len, Len(run_value)),
     min_len |-> Min(a.min_len, Len(run_value)),
     sum_len |-> a.sum_len + Len(run_value),
     topn |-> TopNPush(a.topn, MOST_COMMON, run_length, run_value)]

\* SummarizeBody counting the run of empty values as one empty value.
SummarizeBodyOneEmpty(a, run_value, run_length) ==
    [num_empty |-> IF Len(run_value) = 0 THEN 1 ELSE a.num_empty,
     num_values |-> a.num_values + run_length,
     num_uniques |-> a.num_uniques + 1,
     max_len |-> Max(a.max_len, Len(run_value)),
     min_len |-> Min(a.min_len, Len(run_value)),
     sum_len |-> a.sum_len + Len(run_value) * run_length,
     topn |-> TopNPush(a.topn, MOST_COMMON, run_length, run_value)]

\* SummarizeBody counting one value for each run.
SummarizeBodyCountsRuns(a, run_value, run_length) ==
    [num_empty |-> IF Len(run_value) = 0 THEN run_length ELSE a.num_empty,
     num_values |-> a.num_values + 1,
     num_uniques |-> a.num_uniques + 1,
     max_len |-> Max(a.max_len, Len(run_value)),
     min_len |-> Min(a.min_len, Len(run_value)),
     sum_len |-> a.sum_len + Len(run_value) * run_length,
     topn |-> TopNPush(a.topn, MOST_COMMON, run_length, run_value)]

\* The body of summarize_sorted's loop for one yielded run (summarize.py:63-71).
SummarizeBody(a, run_value, run_length) ==
    [num_empty |-> IF Len(run_value) = 0 THEN run_length ELSE a.num_empty,
     num_values |-> a.num_values + run_length,
     num_uniques |-> a.num_uniques + 1,
     max_len |-> Max(a.max_len, Len(run_value)),
     min_len |-> Min(a.min_len, Len(run_value)),
     sum_len |-> a.sum_len + Len(run_value) * run_length,
     topn |-> TopNPush(a.topn, MOST_COMMON, run_length, run_value)]

\* The dictionary summarize_sorted returns (summarize.py:73-82).
SummarizeResult(a) ==
    [num_values |-> a.num_values,
     num_fills |-> a.num_values - a.num_empty,
     fill_rate |-> Ratio(100 * (a.num_values - a.num_empty), a.num_values),
     max_len |-> a.max_len,
     min_len |-> a.min_len,
     avg_len |-> Ratio(a.sum_len, a.num_values),
     num_uniques |-> a.num_uniques,
     most_common |-> Reversed(TopNToList(a.topn))]

\* raise ValueError('unsorted iterator'): the message names no value.
UnsortedError == [type |-> "ValueError", refs |-> {}]

\* next(iterator) on an exhausted iterator raises StopIteration inside the
\* generator. Python 3.7 and later turn it into a RuntimeError; earlier
\* versions end the generator silently, and summarize_sorted then divides by zero.
EmptyIteratorErrors ==
    {[type |-> "RuntimeError", refs |-> {}], [type |-> "ZeroDivisionError", refs |-> {}]}

\* run_value, run_length = next(iterator), 1
RleStart ==
    /\ prog = "summarize_sorted"
    /\ pc = "start"
    /\ IF it = <<>>
       THEN /\ error' \in EmptyIteratorErrors
            /\ pc' = "done"
            /\ UNCHANGED <<pos, run>>
       ELSE /\ run' = [value |-> it[1], length |-> 1]
            /\ pos' = 1
            /\ pc' = "loop"
            /\ UNCHANGED error
    /\ UNCHANGED <<inputVars, job, i, histogram, memVars, splitVars, fout, it, emitted,
                   acc, result>>

\* value < run_value: raise ValueError; summarize_sorted does not catch it.
RleRaise ==
    /\ prog = "summarize_sorted"
    /\ pc = "loop"
    /\ pos < Len(it)
    /\ StrLess(it[pos + 1], run.value)
    /\ pos' = pos + 1
    /\ error' = UnsortedError
    /\ pc' = "done"
    /\ UNCHANGED <<inputVars, job, i, histogram, memVars, splitVars, fout, it, run,
                   emitted, acc, result>>

\* value != run_value: yield the completed run, which summarize_sorted's loop
\* body consumes, and start a new run.
RleYield ==
    /\ prog = "summarize_sorted"
    /\ pc = "loop"
    /\ pos < Len(it)
    /\ ~StrLess(it[pos + 1], run.value)
    /\ it[pos + 1] # run.value
    /\ pos' = pos + 1
    /\ emitted' = Append(emitted, <<run.value, run.length>>)
    /\ acc' = SummarizeBody(acc, run.value, run.length)
    /\ run' = [value |-> it[pos + 1], length |-> 1]
    /\ UNCHANGED <<inputVars, job, pc, i, histogram, memVars, splitVars, fout, it,
                   result, error>>

\* value == run_value: run_length += 1
RleCount ==
    /\ prog = "summarize_sorted"
    /\ pc = "loop"
    /\ pos < Len(it)
    /\ it[pos + 1] = run.value
    /\ pos' = pos + 1
    /\ run' = [run EXCEPT !.length = @ + 1]
    /\ UNCHANGED <<inputVars, job, pc, i, histogram, memVars, splitVars, fout, it,
                   emitted, acc, result, error>>

\* RleLast without the yield after the loop: the generator just ends.
RleLastNoYield ==
    /\ prog = "summarize_sorted"
    /\ pc = "loop"
    /\ pos = Len(it)
    /\ pc' = "return"
    /\ UNCHANGED <<inputVars, job, i, histogram, memVars, splitVars, fout, sumVars,
                   result, error>>

\* The iterator is exhausted: the yield after the loop, consumed by the body.
RleLast ==
    /\ prog = "summarize_sorted"
    /\ pc = "loop"
    /\ pos = Len(it)
    /\ emitted' = Append(emitted, <<run.value, run.length>>)
    /\ acc' = SummarizeBody(acc, run.value, run.length)
    /\ pc' = "return"
    /\ UNCHANGED <<inputVars, job, i, histogram, memVars, splitVars, fout, it, pos,
                   run, result, error>>

\* return {...}
SummarizeReturn ==
    /\ prog = "summarize_sorted"
    /\ pc = "return"
    /\ result' = SummarizeResult(acc)
    /\ pc' = "done"
    /\ UNCHANGED <<inputVars, job, i, histogram, memVars, splitVars, fout, sumVars, error>>

\* summarize_sorted(iter(values)) for a non-empty non-decreasing sequence, as
\* the actions above compute it.
RECURSIVE SummarizeFrom(_, _, _, _)
SummarizeFrom(a, run_value, run_length, rest) ==
    IF rest = <<>> THEN SummarizeResult(SummarizeBody(a, run_value, run_length))
    ELSE IF Head(rest) = run_value
         THEN SummarizeFrom(a, run_value, run_length + 1, Tail(rest))
         ELSE SummarizeFrom(SummarizeBody(a, run_value, run_length), Head(rest), 1, Tail(rest))

summarize_sorted(values) == SummarizeFrom(NewAcc, Head(values), 1, Tail(values))

\* "", "a", "aa", "b"
Values == {<<>>, <<97>>, <<97, 97>>, <<98>>}
Streams == SeqsUpTo(Values, MaxStream)

InitSummarize ==
    /\ prog = "summarize_sorted"
    /\ header = <<>>
    /\ list_columns = {}
    /\ rows = <<>>
    /\ batch_size = DEFAULT_BATCH_SIZE
    /\ pc = "start"
    /\ i = 0
    /\ histogram = EmptyCounter
    /\ columns = <<>>
    /\ stats = <<>>
    /\ qnext = 1
    /\ queues = <<>>
    /\ unfinished = <<>>
    /\ wpc = <<>>
    /\ wlines = <<>>
    /\ files = <<>>
    /\ closed = <<>>
    /\ sent = <<>>
    /\ fout = [n \in {} |-> <<>>]
    /\ job = NoJob
    /\ it \in Streams
    /\ pos = 0
    /\ run = [value |-> <<>>, length |-> 0]
    /\ emitted = <<>>
    /\ acc = NewAcc
    /\ result = [none |-> TRUE]
    /\ error = NoError

NextSummarize ==
    \/ RleStart
    \/ RleRaise
    \/ RleYield
    \/ RleCount
    \/ RleLast
    \/ SummarizeReturn

SpecSummarize == InitSummarize /\ [][NextSummarize]_vars

(***************************************************************************)
(* The dispatchers' specification.                                         *)
(***************************************************************************)
Dispatchers == {"split_in_memory", "stream_read", "split", "split_line"}

IdleSplit ==
    /\ qnext = 1
    /\ queues = <<>>
    /\ unfinished = <<>>
    /\ wpc = <<>>
    /\ wlines = <<>>
    /\ files = <<>>
    /\ closed = <<>>
    /\ sent = <<>>

IdleSummarize ==
    /\ it = <<>>
    /\ pos = 0
    /\ run = [value |-> <<>>, length |-> 0]
    /\ emitted = <<>>
    /\ acc = NewAcc

Init ==
    /\ prog \in Dispatchers
    /\ header \in Headers
    /\ list_columns \in ListColumnChoices
    /\ rows \in Readers
    /\ batch_size \in (IF prog = "split" THEN BatchSizes ELSE {DEFAULT_BATCH_SIZE})
    /\ pc = (IF prog = "split" THEN "populate"
             ELSE IF prog = "split_in_memory" THEN "header" ELSE "loop")
    /\ i = 0
    /\ histogram = EmptyCounter
    /\ columns = (IF prog = "split_in_memory" THEN [j \in 1..Len(header) |-> <<>>] ELSE <<>>)
    /\ stats = (IF prog = "stream_read" THEN [j \in 1..Len(header) |-> NewColumn] ELSE <<>>)
    /\ IF prog = "split"
       THEN /\ qnext = 1
            /\ queues = [j \in 1..Len(header) |-> <<>>]
            /\ unfinished = [j \in 1..Len(header) |-> 0]
            /\ wpc = [j \in 1..Len(header) |-> "get"]
            /\ wlines = [j \in 1..Len(header) |-> QueueItem(<<>>)]
            /\ files = [j \in 1..Len(header) |-> <<>>]
            /\ closed = [j \in 1..Len(header) |-> FALSE]
            /\ sent = [j \in 1..Len(header) |-> <<>>]
       ELSE IdleSplit
    /\ fout = [n \in {} |-> <<>>]
    /\ job = NoJob
    \* split_in_memory takes the header from its reader: the reader yields
    \* the header and then the rows, or nothing at all.
    /\ it \in (IF prog # "split_in_memory" THEN {<<>>}
               ELSE IF rows = <<>> THEN {<<>>, <<header>>} ELSE {<<header>>})
    /\ pos = 0
    /\ run = [value |-> <<>>, length |-> 0]
    /\ emitted = <<>>
    /\ acc = NewAcc
    /\ result = [none |-> TRUE]
    /\ error = NoError

Next ==
    \/ SplitInMemoryHeader
    \/ SplitInMemoryEmpty
    \/ SplitInMemoryStep
    \/ SplitInMemoryReturn
    \/ StreamReadStep
    \/ StreamReadReturn
    \/ PopulateBatch
    \/ PopulatePut
    \/ PopulateEnd
    \/ PopulateSentinel
    \/ SplitJoin
    \/ \E c \in 1..NumColumns : WriterGet(c)
    \/ \E c \in 1..NumColumns : WriterWrite(c)
    \/ \E c \in 1..NumColumns : WriterTaskDone(c)
    \/ \E c \in 1..NumColumns : WriterClose(c)
    \/ SplitLineStep
    \/ SplitLineClose

Spec == Init /\ [][Next]_vars

(***************************************************************************)
(* stream.Column on its own: values added one by one or extended, then     *)
(* summarized.                                                             *)
(***************************************************************************)
\* column.add(value)
ColumnAddStep ==
    /\ prog = "Column"
    /\ pc = "add"
    /\ pos < Len(it)
    /\ stats' = <<ColumnAdd(stats[1], it[pos + 1])>>
    /\ pos' = pos + 1
    /\ UNCHANGED <<inputVars, job, pc, i, histogram, columns, splitVars, fout, it, run,
                   emitted, acc, result, error>>

\* column.extend(values) with all the values that are left.
ColumnExtendStep ==
    /\ prog = "Column"
    /\ pc = "add"
    /\ pos < Len(it)
    /\ stats' = <<ColumnExtend(stats[1], SubSeq(it, pos + 1, Len(it)))>>
    /\ pos' = Len(it)
    /\ UNCHANGED <<inputVars, job, pc, i, histogram, columns, splitVars, fout, it, run,
                   emitted, acc, result, error>>

\* column.summarize(): the quotients divide by the number of values.
ColumnSummarizeStep ==
    /\ prog = "Column"
    /\ pc = "add"
    /\ pos = Len(it)
    /\ pc' = "done"
    /\ IF stats[1].num_values = 0
       THEN /\ error' = [type |-> "ZeroDivisionError", refs |-> {}]
            /\ UNCHANGED result
       ELSE /\ result' = ColumnSummarize(stats[1])
            /\ UNCHANGED error
    /\ UNCHANGED <<inputVars, job, i, histogram, memVars, splitVars, fout, sumVars>>

InitColumn ==
    /\ prog = "Column"
    /\ header = <<>>
    /\ list_columns = {}
    /\ rows = <<>>
    /\ batch_size = DEFAULT_BATCH_SIZE
    /\ pc = "add"
    /\ i = 0
    /\ histogram = EmptyCounter
    /\ columns = <<>>
    /\ stats = <<NewColumn>>
    /\ IdleSplit
    /\ fout = [n \in {} |-> <<>>]
    /\ job = NoJob
    /\ it \in Streams
    /\ pos = 0
    /\ run = [value |-> <<>>, length |-> 0]
    /\ emitted = <<>>
    /\ acc = NewAcc
    /\ result = [none |-> TRUE]
    /\ error = NoError

NextColumn ==
    \/ ColumnAddStep
    \/ ColumnExtendStep
    \/ ColumnSummarizeStep

SpecColumn == InitColumn /\ [][NextColumn]_vars

(***************************************************************************)
(* split.split on an input long enough to fill the bounded queues, with    *)
(* the threads scheduled fairly.                                           *)
(***************************************************************************)
MaxLongRows == 12

\* Row k of the long input: all rows differ, the second one is too short.
LongRow(k) == IF k = 2 THEN <<<<97>>>> ELSE <<<<96 + k>>, <<96 + k, 59, 98>>>>

LongReaders == {[k \in 1..n |-> LongRow(k)] : n \in {0, 1, MaxLongRows}}

ColumnIds == UNION {DOMAIN hdr : hdr \in Headers}

InitBounded ==
    /\ prog = "split"
    /\ header \in Headers
    /\ list_columns = {"list"}
    /\ rows \in LongReaders
    /\ batch_size = 1
    /\ pc = "populate"
    /\ i = 0
    /\ histogram = EmptyCounter
    /\ columns = <<>>
    /\ stats = <<>>
    /\ qnext = 1
    /\ queues = [j \in 1..Len(header) |-> <<>>]
    /\ unfinished = [j \in 1..Len(header) |-> 0]
    /\ wpc = [j \in 1..Len(header) |-> "get"]
    /\ wlines = [j \in 1..Len(header) |-> QueueItem(<<>>)]
    /\ files = [j \in 1..Len(header) |-> <<>>]
    /\ closed = [j \in 1..Len(header) |-> FALSE]
    /\ sent = [j \in 1..Len(header) |-> <<>>]
    /\ fout = [n \in {} |-> <<>>]
    /\ job = NoJob
    /\ IdleSummarize
    /\ result = [none |-> TRUE]
    /\ error = NoError

\* The main thread of split(), and the thread of writer c.
DispatcherThread ==
    \/ PopulateBatch
    \/ PopulatePut
    \/ PopulateEnd
    \/ PopulateSentinel
    \/ SplitJoin

WriterThread(c) ==
    \/ WriterGet(c)
    \/ WriterWrite(c)
    \/ WriterTaskDone(c)
    \/ WriterClose(c)

NextBounded ==
    \/ DispatcherThread
    \/ \E c \in 1..NumColumns : WriterThread(c)

\* The interpreter keeps running every thread that can run.
SpecBounded ==
    /\ InitBounded
    /\ [][NextBounded]_vars
    /\ WF_vars(DispatcherThread)
    /\ \A c \in ColumnIds : WF_vars(WriterThread(c))

(***************************************************************************)
(* split.split with writes that may fail.                                  *)
(***************************************************************************)
\* self.write(lines) raises (the disk is full, a value cannot be encoded): run()
\* catches nothing, so the thread ends there, without task_done() for the
\* batch and without closing the file. The exception stays in the thread.
WriterWriteFails(c) ==
    /\ prog = "split"
    /\ wpc[c] = "write"
    /\ wpc' = [wpc EXCEPT ![c] = "dead"]
    /\ UNCHANGED <<inputVars, job, pc, i, histogram, memVars, qnext, queues, unfinished,
                   wlines, files, closed, sent, fout, sumVars, result, error>>

InitFaulty == Init /\ prog = "split"

NextFaulty ==
    \/ DispatcherThread
    \/ \E c \in 1..NumColumns : WriterThread(c)
    \/ \E c \in 1..NumColumns : WriterWriteFails(c)

SpecFaulty == InitFaulty /\ [][NextFaulty]_vars

(***************************************************************************)
(* The dispatchers composed with the column writers, as functions of the   *)
(* input.                                                                  *)
(***************************************************************************)
\* The histogram _populate_queues returns for the given batch size.
RECURSIVE PopulateHistogramFrom(_, _)
PopulateHistogramFrom(h, batches) ==
    IF batches = <<>> THEN h
    ELSE PopulateHistogramFrom(HistogramUpdate(h, Head(batches)), Tail(batches))

PopulateHistogram(rs, size) == PopulateHistogramFrom(EmptyCounter, _make_batches(rs, size))

\* The bytes of column file c once split() has returned: writer c has written
\* every batch put on queue c, in order.
RECURSIVE ColumnFileFrom(_, _, _, _)
ColumnFileFrom(hdr, lcs, c, batches) ==
    IF batches = <<>> THEN <<>>
    ELSE WritePy3(BatchColumn(hdr, lcs, c, Head(batches)))
             \o ColumnFileFrom(hdr, lcs, c, Tail(batches))

ColumnFile(hdr, lcs, rs, size, c) == ColumnFileFrom(hdr, lcs, c, _make_batches(rs, size))

\* stream.read's loop over all the rows.
RECURSIVE StreamReadFrom(_, _, _, _)
StreamReadFrom(hdr, lcs, st, rs) ==
    IF rs = <<>> THEN st
    ELSE StreamReadFrom(hdr, lcs, StreamReadRow(hdr, lcs, st, Head(rs)), Tail(rs))

\* ColumnSplitter.split_line over all the lines.
RECURSIVE SplitLinesFrom(_, _, _, _)
SplitLinesFrom(hdr, lfs, st, lines) ==
    IF lines = <<>> THEN st
    ELSE SplitLinesFrom(hdr, lfs, SplitLine(hdr, lfs, st, Head(lines)), Tail(lines))

(***************************************************************************)
(* cli.main: the in-memory pipeline and the partitioned pipeline           *)
(***************************************************************************)
\* The parameters summarize.summarize_sorted and summarize.sort_and_summarize
\* declare, and the names the split module defines.
summarize_sorted_params == {"iterator"}
sort_and_summarize_params ==
    {"path", "path_is_gzipped", "compress_temporary", "buffer_size", "num_subprocesses"}
split_module_names ==
    {"WriterThread", "_open_temp", "_make_batches", "_populate_queues", "split",
     "split_in_memory"}

\* The files and directories a partitioned job creates: the temporary directory
\* csvi-*, its parts and columns directories, the part files, for each part its
\* columns directory and column files, and the merged column files.
Resource(kind, p, c) == [kind |-> kind, part |-> p, column |-> c]

\* What _split_large_file creates for n parts (cli.py:392-400, 408-414).
SplitLargeResources(n) ==
    {Resource("tmpdir", 0, 0), Resource("parts_dir", 0, 0), Resource("columns_dir", 0, 0)}
        \cup {Resource("part", p, 0) : p \in 1..n}

\* What split.split creates for part p (split.py:166, 21-24).
SplitResources(p, ncolumns) ==
    {Resource("part_columns_dir", p, 0)}
        \cup {Resource("column_file", p, c) : c \in 1..ncolumns}

\* `split --lines=L` over the lines after the header: consecutive parts of L
\* lines, the last one possibly shorter, no part for no line.
RECURSIVE SplitLargeFile(_, _)
SplitLargeFile(rs, L) ==
    IF rs = <<>> THEN <<>>
    ELSE IF Len(rs) <= L THEN <<rs>>
    ELSE <<SubSeq(rs, 1, L)>> \o SplitLargeFile(SubSeq(rs, L + 1, Len(rs)), L)

\* _split_file(header, path): split.split over one part, with the default
\* batch size; the histogram and the bytes of the part's column files.
SplitFile(hdr, lcs, part) ==
    [histogram |-> PopulateHistogram(part, DEFAULT_BATCH_SIZE),
     files |-> [c \in 1..Len(hdr) |-> ColumnFile(hdr, lcs, part, DEFAULT_BATCH_SIZE, c)]]

\* CounterUpdate as dict.update: the count is overwritten, not added.
RECURSIVE CounterUpdateOverwrite(_, _)
CounterUpdateOverwrite(agg, hist) ==
    IF DOMAIN hist = {} THEN agg
    ELSE LET k == CHOOSE k \in DOMAIN hist : TRUE
         IN CounterUpdateOverwrite(CounterSet(agg, k, hist[k]),
                                   [m \in DOMAIN hist \ {k} |-> hist[m]])

\* aggregated.update(hist)
RECURSIVE CounterUpdate(_, _)
CounterUpdate(agg, hist) ==
    IF DOMAIN hist = {} THEN agg
    ELSE LET k == CHOOSE k \in DOMAIN hist : TRUE
         IN CounterUpdate(CounterAdd(agg, k, hist[k]),
                          [m \in DOMAIN hist \ {k} |-> hist[m]])

RECURSIVE AggregateFrom(_, _)
AggregateFrom(agg, hists) ==
    IF hists = <<>> THEN agg
    ELSE AggregateFrom(CounterUpdate(agg, Head(hists)), Tail(hists))

_aggregate_histograms(hists) == AggregateFrom(EmptyCounter, hists)

\* `cat` of the given files, in order.
_concatenate(paths) == Concat(paths)

\* _run_in_memory: split_in_memory(reader, ...)
MainSplitInMemory ==
    /\ prog = "main"
    /\ pc = "main"
    /\ job.tiny
    /\ LET st == SplitInMemory(header, list_columns, rows)
       IN /\ histogram' = st.histogram
          /\ columns' = st.columns
    /\ pc' = "summarize"
    /\ UNCHANGED <<inputVars, job, i, stats, splitVars, fout, sumVars, result, error>>

\* _run_in_memory: summarize_sorted(iter(sorted(col)), most_common=...) for
\* each column. summarize_sorted declares no most_common parameter.
MainSummarizeInMemory ==
    /\ prog = "main"
    /\ pc = "summarize"
    /\ pc' = "done"
    /\ IF "most_common" \notin summarize_sorted_params
       THEN /\ error' = [type |-> "TypeError", refs |-> {}]
            /\ UNCHANGED result
       ELSE IF \E c \in 1..NumColumns : columns[c] = <<>>
            THEN /\ error' \in EmptyIteratorErrors
                 /\ UNCHANGED result
            ELSE /\ result' = [header |-> header, histogram |-> histogram,
                               results |-> [c \in 1..NumColumns |->
                                               summarize_sorted(Sorted(columns[c]))]]
                 /\ UNCHANGED error
    /\ UNCHANGED <<inputVars, job, i, histogram, memVars, splitVars, fout, sumVars>>

\* part_paths = _split_large_file(args.path, lines_per_part=...)
MainSplitLargeFile ==
    /\ prog = "main"
    /\ pc = "main"
    /\ ~job.tiny
    /\ LET parts == SplitLargeFile(rows, job.lines_per_part)
       IN job' = [job EXCEPT !.part_paths = parts,
                             !.split_results = [p \in {} |-> <<>>],
                             !.resources = SplitLargeResources(Len(parts))]
    /\ pc' = "map_split"
    /\ UNCHANGED <<inputVars, i, histogram, memVars, splitVars, fout, sumVars,
                   result, error>>

\* MainSplitFile collecting each part's result as soon as it is there, without
\* waiting for the map to be over.
MainSplitFileFailsContinues(p) ==
    /\ prog = "main"
    /\ pc = "map_split"
    /\ p \in 1..Len(job.part_paths)
    /\ p \notin DOMAIN job.split_results
    /\ error' = [type |-> "OSError", refs |-> {}]
    /\ job' = [job EXCEPT !.split_results =
                   [q \in DOMAIN job.split_results \cup {p} |->
                       IF q = p THEN [histogram |-> EmptyCounter,
                                      files |-> [c \in 1..NumColumns |-> <<>>],
                                      finalized |-> TRUE]
                       ELSE job.split_results[q]]]
    /\ UNCHANGED <<inputVars, pc, i, histogram, memVars, splitVars, fout, sumVars, result>>

\* pool.map(my_split, paths): the worker of part p raises, as when
\* os.mkdir(part_columns_dir) or gzip.GzipFile(path, mode='wb') fails
\* (split.py:167, 23). pool.map raises the error again in main, which catches
\* nothing.
MainSplitFileFails(p) ==
    /\ prog = "main"
    /\ pc = "map_split"
    /\ p \in 1..Len(job.part_paths)
    /\ p \notin DOMAIN job.split_results
    /\ error' = [type |-> "OSError", refs |-> {}]
    /\ pc' = "done"
    /\ UNCHANGED <<inputVars, job, i, histogram, memVars, splitVars, fout, sumVars, result>>

\* pool.map(my_split, paths): a worker splits part p into its column files.
\* split() returns after queue.join(), which the writers' last task_done()
\* releases: whether they have closed their files by then is not determined
\* (split.py:62-63, 177-181).
MainSplitFile(p) ==
    /\ prog = "main"
    /\ pc = "map_split"
    /\ p \in 1..Len(job.part_paths)
    /\ p \notin DOMAIN job.split_results
    /\ \E fin \in BOOLEAN :
           LET sf == SplitFile(header, list_columns, job.part_paths[p])
           IN job' = [job EXCEPT !.split_results =
                          [q \in DOMAIN job.split_results \cup {p} |->
                              IF q = p THEN [histogram |-> sf.histogram, files |-> sf.files,
                                             finalized |-> fin]
                              ELSE job.split_results[q]],
                                 !.resources = @ \cup SplitResources(p, NumColumns)]
    /\ UNCHANGED <<inputVars, pc, i, histogram, memVars, splitVars, fout, sumVars,
                   result, error>>

\* The writer threads of part p's worker close their files.
MainWritersClose(p) ==
    /\ prog = "main"
    /\ p \in DOMAIN job.split_results
    /\ ~job.split_results[p].finalized
    /\ job' = [job EXCEPT !.split_results[p].finalized = TRUE]
    /\ UNCHANGED <<inputVars, pc, i, histogram, memVars, splitVars, fout, sumVars,
                   result, error>>

\* pool.map has returned: histograms, paths = zip(*results), which cannot be
\* unpacked when there is no part, then _aggregate_histograms(histograms).
MainAggregate ==
    /\ prog = "main"
    /\ pc = "map_split"
    /\ DOMAIN job.split_results = 1..Len(job.part_paths)
    /\ IF job.part_paths = <<>>
       THEN /\ error' = [type |-> "ValueError", refs |-> {}]
            /\ pc' = "done"
            /\ UNCHANGED histogram
       ELSE /\ histogram' = _aggregate_histograms(
                    [p \in 1..Len(job.part_paths) |-> job.split_results[p].histogram])
            /\ pc' = "concatenate"
            /\ UNCHANGED error
    /\ UNCHANGED <<inputVars, job, i, memVars, splitVars, fout, sumVars, result>>

\* _concatenate_tables(paths): _concatenate of the first column makes its
\* output file with mkstemp and then calls split.make_batches, a name the split
\* module does not define. Had it returned, each column's part files would be
\* appended to one file and unlinked.
MainConcatenate ==
    /\ prog = "main"
    /\ pc = "concatenate"
    /\ IF "make_batches" \notin split_module_names
       THEN /\ error' = [type |-> "AttributeError", refs |-> {}]
            /\ pc' = "done"
            /\ job' = [job EXCEPT !.resources = @ \cup {Resource("merged", 0, 1)}]
            /\ UNCHANGED files
       ELSE /\ files' = [c \in 1..NumColumns |->
                            _concatenate([p \in 1..Len(job.part_paths) |->
                                             job.split_results[p].files[c]])]
            /\ job' = [job EXCEPT !.resources =
                           (@ \ {r \in @ : r.kind = "column_file"})
                               \cup {Resource("merged", 0, c) : c \in 1..NumColumns}]
            /\ pc' = "sort"
            /\ UNCHANGED error
    /\ UNCHANGED <<inputVars, i, histogram, memVars, qnext, queues, unfinished,
                   wpc, wlines, closed, sent, fout, sumVars, result>>

InitJob ==
    /\ prog = "main"
    /\ header \in Headers
    /\ list_columns \in ListColumnChoices
    /\ rows \in Readers
    /\ batch_size = DEFAULT_BATCH_SIZE
    /\ job \in [tiny : BOOLEAN, lines_per_part : 1..MaxLinesPerPart,
                most_common : 1..MaxMostCommon, part_paths : {<<>>},
                split_results : {<<>>}, resources : {{}}]
    /\ pc = "main"
    /\ i = 0
    /\ histogram = EmptyCounter
    /\ columns = <<>>
    /\ stats = <<>>
    /\ IdleSplit
    /\ fout = [n \in {} |-> <<>>]
    /\ IdleSummarize
    /\ result = [none |-> TRUE]
    /\ error = NoError

NextJob ==
    \/ MainSplitInMemory
    \/ MainSummarizeInMemory
    \/ MainSplitLargeFile
    \/ \E p \in 1..MaxRows : MainSplitFile(p)
    \/ \E p \in 1..MaxRows : MainSplitFileFails(p)
    \/ \E p \in 1..MaxRows : MainWritersClose(p)
    \/ MainAggregate
    \/ MainConcatenate

SpecJob == InitJob /\ [][NextJob]_vars

(***************************************************************************)
(* cli._split_large_file: the file cut into parts of whole lines           *)
(***************************************************************************)
\* The physical lines of a file, without their terminators: "a", "b", and
\* "a\", whose escape character makes csv.reader take the line terminator as
\* data and continue the row on the next line (the default dialect sets
\* escapechar to the backslash, cli.py:110).
FileLineChoices == {<<97>>, <<98>>, <<97, ESCAPECHAR>>}
Files == SeqsUpTo(FileLineChoices, MaxFileLines) \ {<<>>}

\* csv.reader(fin, dialect) over the given lines: the rows, each a list of
\* cells. A line ending in the escape character joins the next line, and at
\* the end of the input such a row ends with the escaped newline.
RECURSIVE CsvReadFrom(_, _, _)
CsvReadFrom(pending, open, lines) ==
    IF lines = <<>>
    THEN IF open THEN <<StrSplit(pending, DELIMITER)>> ELSE <<>>
    ELSE LET line == Head(lines)
         IN IF line # <<>> /\ line[Len(line)] = ESCAPECHAR
            THEN CsvReadFrom(pending \o SubSeq(line, 1, Len(line) - 1) \o <<NEWLINE>>,
                             TRUE, Tail(lines))
            ELSE <<StrSplit(pending \o line, DELIMITER)>>
                     \o CsvReadFrom(<<>>, FALSE, Tail(lines))

CsvRead(lines) == CsvReadFrom(<<>>, FALSE, lines)

\* chain(): cat path | tail -n +2 | split --lines=L, then os.listdir. The
\* parts are kept in the order split writes them.
SplitLargeRun ==
    /\ prog = "_split_large_file"
    /\ pc = "start"
    /\ LET parts == SplitLargeFile(Tail(it), job.lines_per_part)
       IN job' = [job EXCEPT !.part_paths = parts,
                             !.split_results = [p \in {} |-> <<>>],
                             !.resources = SplitLargeResources(Len(parts))]
    /\ pc' = "parts"
    /\ UNCHANGED <<inputVars, i, histogram, memVars, splitVars, fout, sumVars,
                   result, error>>

\* _split_file opens part p and reads it with csv.reader (cli.py:451-452).
ReadPart(p) ==
    /\ prog = "_split_large_file"
    /\ pc = "parts"
    /\ p \in 1..Len(job.part_paths)
    /\ p \notin DOMAIN job.split_results
    /\ job' = [job EXCEPT !.split_results =
                   [q \in DOMAIN job.split_results \cup {p} |->
                       IF q = p THEN [rows |-> CsvRead(job.part_paths[p])]
                       ELSE job.split_results[q]]]
    /\ UNCHANGED <<inputVars, pc, i, histogram, memVars, splitVars, fout, sumVars,
                   result, error>>

InitSplitLarge ==
    /\ prog = "_split_large_file"
    /\ header = <<>>
    /\ list_columns = {}
    /\ rows = <<>>
    /\ batch_size = DEFAULT_BATCH_SIZE
    /\ job \in [tiny : {FALSE}, lines_per_part : 1..MaxLinesPerPart,
                most_common : {MOST_COMMON}, part_paths : {<<>>},
                split_results : {<<>>}, resources : {{}}]
    /\ pc = "start"
    /\ i = 0
    /\ histogram = EmptyCounter
    /\ columns = <<>>
    /\ stats = <<>>
    /\ IdleSplit
    /\ fout = [n \in {} |-> <<>>]
    /\ it \in Files
    /\ pos = 0
    /\ run = [value |-> <<>>, length |-> 0]
    /\ emitted = <<>>
    /\ acc = NewAcc
    /\ result = [none |-> TRUE]
    /\ error = NoError

NextSplitLarge ==
    \/ SplitLargeRun
    \/ \E p \in 1..MaxFileLines : ReadPart(p)

SpecSplitLarge == InitSplitLarge /\ [][NextSplitLarge]_vars

(***************************************************************************)
(* cli._aggregate_histograms                                               *)
(***************************************************************************)
\* Row-length histograms as the partition workers return them: some of the
\* lengths 1 and 2, each with a positive count.
HistogramLengths == {1, 2}
Histograms ==
    UNION {[keys -> 1..MaxCount] : keys \in SUBSET HistogramLengths}
HistogramLists == SeqsUpTo(Histograms, MaxHistograms)

\* for hist in histograms: aggregated.update(hist)
AggregateUpdate ==
    /\ prog = "_aggregate_histograms"
    /\ pc = "loop"
    /\ pos < Len(it)
    /\ histogram' = CounterUpdate(histogram, it[pos + 1])
    /\ pos' = pos + 1
    /\ UNCHANGED <<inputVars, job, pc, i, memVars, splitVars, fout, it, run, emitted,
                   acc, result, error>>

\* return aggregated
AggregateReturn ==
    /\ prog = "_aggregate_histograms"
    /\ pc = "loop"
    /\ pos = Len(it)
    /\ result' = [histogram |-> histogram]
    /\ pc' = "done"
    /\ UNCHANGED <<inputVars, job, i, histogram, memVars, splitVars, fout, sumVars, error>>

InitAggregate ==
    /\ prog = "_aggregate_histograms"
    /\ header = <<>>
    /\ list_columns = {}
    /\ rows = <<>>
    /\ batch_size = DEFAULT_BATCH_SIZE
    /\ job = NoJob
    /\ pc = "loop"
    /\ i = 0
    /\ histogram = EmptyCounter
    /\ columns = <<>>
    /\ stats = <<>>
    /\ IdleSplit
    /\ fout = [n \in {} |-> <<>>]
    /\ it \in HistogramLists
    /\ pos = 0
    /\ run = [value |-> <<>>, length |-> 0]
    /\ emitted = <<>>
    /\ acc = NewAcc
    /\ result = [none |-> TRUE]
    /\ error = NoError

NextAggregate ==
    \/ AggregateUpdate
    \/ AggregateReturn

SpecAggregate == InitAggregate /\ [][NextAggregate]_vars

(***************************************************************************)
(* Reference notions the properties are stated with.                       *)
(***************************************************************************)
Range(s) == {s[k] : k \in 1..Len(s)}
Prefix(s, n) == SubSeq(s, 1, n)
RowsOfLength(rs, L) == Cardinality({k \in 1..Len(rs) : Len(rs[k]) = L})
CountChar(s, ch) == Cardinality({k \in 1..Len(s) : s[k] = ch})
WellFormed(row) == Len(row) = Len(header)
HasWellFormed(rs) == \E k \in 1..Len(rs) : WellFormed(rs[k])
HasMalformed(rs) == \E k \in 1..Len(rs) : ~WellFormed(rs[k])

\* The rows of rs that fit the header, in order.
RECURSIVE WellFormedOnly(_)
WellFormedOnly(rs) ==
    IF rs = <<>> THEN <<>>
    ELSE IF WellFormed(Head(rs)) THEN <<Head(rs)>> \o WellFormedOnly(Tail(rs))
    ELSE WellFormedOnly(Tail(rs))

\* The histogram h counts exactly the rows of rs, by length.
HistogramExact(h, rs) ==
    /\ DOMAIN h = {Len(rs[k]) : k \in 1..Len(rs)}
    /\ \A L \in DOMAIN h : h[L] = RowsOfLength(rs, L)

\* Number of rows in the batches the threaded dispatcher has taken.
RowsTaken == SumSeq([k \in 1..i |-> Len(Batches[k])])

\* The number of atomic values the rows rs owe to column c.
RECURSIVE ExpectedCount(_, _)
ExpectedCount(c, rs) ==
    IF rs = <<>> THEN 0
    ELSE (IF ~WellFormed(Head(rs)) THEN 0
          ELSE IF IsList(header, list_columns, c)
               THEN CountChar(Head(rs)[c], LIST_SEPARATOR) + 1
               ELSE 1) + ExpectedCount(c, Tail(rs))

NonDecreasing(s) == \A k \in 1..(Len(s) - 1) : ~StrLess(s[k + 1], s[k])
HasDescent(s) == \E k \in 1..(Len(s) - 1) : StrLess(s[k + 1], s[k])
FirstDescent(s) ==
    CHOOSE k \in 2..Len(s) :
        StrLess(s[k], s[k - 1]) /\ \A m \in 2..(k - 1) : ~StrLess(s[m], s[m - 1])
MinOf(S) == CHOOSE x \in S : \A y \in S : x <= y
MaxOf(S) == CHOOSE x \in S : \A y \in S : x >= y
Lengths(s) == [k \in 1..Len(s) |-> Len(s[k])]

\* The stream a sequence of (value, run length) pairs stands for.
RECURSIVE Expand(_)
Expand(pairs) ==
    IF pairs = <<>> THEN <<>>
    ELSE [k \in 1..Head(pairs)[2] |-> Head(pairs)[1]] \o Expand(Tail(pairs))

\* Sequences as multisets.
CountIn(s, x) == Cardinality({k \in 1..Len(s) : s[k] = x})
SameBag(s, t) == Len(s) = Len(t) /\ \A x \in Range(s) \cup Range(t) : CountIn(s, x) = CountIn(t, x)

\* Integers in ascending order, and the n last elements of a sequence.
RECURSIVE InsertInt(_, _)
InsertInt(sorted, n) ==
    IF sorted = <<>> THEN <<n>>
    ELSE IF n < Head(sorted) THEN <<n>> \o sorted
    ELSE <<Head(sorted)>> \o InsertInt(Tail(sorted), n)

RECURSIVE SortedInts(_)
SortedInts(ns) == IF ns = <<>> THEN <<>> ELSE InsertInt(SortedInts(Tail(ns)), Head(ns))

LastN(s, n) == SubSeq(s, Len(s) - Min(n, Len(s)) + 1, Len(s))
Frequencies(entries) == [k \in 1..Len(entries) |-> entries[k].frequency]

\* The least entry of a non-empty Top-N set under (frequency, value) order.
MinEntry(entries) ==
    CHOOSE m \in Range(entries) : \A x \in Range(entries) : ~EntryLess(x, m)

\* Descending frequency, equal frequencies in descending value order.
MostCommonOrder(mc) ==
    \A k \in 1..(Len(mc) - 1) :
        \/ mc[k].frequency > mc[k + 1].frequency
        \/ mc[k].frequency = mc[k + 1].frequency /\ ~StrLess(mc[k].value, mc[k + 1].value)

(***************************************************************************)
(* Properties of the dispatchers (specification Spec).                     *)
(***************************************************************************)
\* C1: the histogram of split_in_memory, stream.read and _populate_queues maps
\* each length to the exact number of rows read so far that have this length,
\* and the histogram returned counts every row after the header exactly once.
C1_HistogramCountsEveryRow ==
    /\ prog \in {"split_in_memory", "stream_read"} => HistogramExact(histogram, Prefix(rows, i))
    /\ prog = "split" => HistogramExact(histogram, Prefix(rows, RowsTaken))
    /\ (prog \in {"split_in_memory", "stream_read", "split"} /\ pc = "done" /\ error = NoError)
           => /\ HistogramExact(result.histogram, rows)
              /\ CounterTotal(result.histogram) = Len(rows)

C1_Witness ==
    /\ prog = "split"
    /\ pc = "done"
    /\ batch_size = 2
    /\ Len(rows) = 3
    /\ HasMalformed(rows)
    /\ HasWellFormed(rows)
    /\ \E L \in DOMAIN result.histogram : result.histogram[L] = 2

\* C2: in split_in_memory, stream.read and ColumnSplitter.split_line a row that
\* does not fit the header only increments histogram[its length]: the columns
\* are what the well-formed rows alone produce.
C2_MalformedRowOnlyCounted ==
    LET seen == Prefix(rows, i)
        kept == WellFormedOnly(seen)
        extra(L) == RowsOfLength(seen, L) - RowsOfLength(kept, L)
    IN /\ prog = "split_in_memory" =>
              LET ref == SplitInMemory(header, list_columns, kept)
              IN /\ columns = ref.columns
                 /\ \A L \in 0..3 : Count(histogram, L) = Count(ref.histogram, L) + extra(L)
       /\ prog = "stream_read" =>
              LET ref == StreamReadFrom(header, list_columns,
                             [histogram |-> EmptyCounter,
                              columns |-> [j \in 1..Len(header) |-> NewColumn]], kept)
              IN /\ stats = ref.columns
                 /\ \A L \in 0..3 : Count(histogram, L) = Count(ref.histogram, L) + extra(L)
       /\ prog = "split_line" =>
              LET ref == SplitLinesFrom(header, list_columns,
                             [counter |-> EmptyCounter, fout |-> [n \in {} |-> <<>>]],
                             [k \in 1..Len(kept) |-> LineOf(kept[k])])
              IN /\ fout = ref.fout
                 /\ \A L \in 0..3 : Count(histogram, L) = Count(ref.counter, L) + extra(L)

C2_Witness ==
    /\ prog = "split_line"
    /\ pc = "done"
    /\ Len(rows) = 3
    /\ WellFormed(rows[1])
    /\ ~WellFormed(rows[2])
    /\ WellFormed(rows[3])
    /\ Count(histogram, Len(rows[2])) = 1

\* C3: once the threaded dispatcher has returned, the number of newline-terminated
\* values in column file c is the number of atomic values the well-formed rows
\* produce for column c.
C3_MalformedRowsWriteNothing ==
    (prog = "split" /\ pc = "done") =>
        \A c \in 1..NumColumns : CountChar(files[c], NEWLINE) = ExpectedCount(c, rows)

\* C4: the number of atomic values sent to column c is one per well-formed row,
\* or for a list column one more than the separators of each cell, and the
\* summary of the column stream reports this number as num_values, which is the
\* sum of its run lengths.
C4_ValueCountPerColumn ==
    /\ prog = "split_in_memory" =>
           \A c \in 1..NumColumns :
               /\ Len(columns[c]) = ExpectedCount(c, Prefix(rows, i))
               /\ (pc = "done" /\ columns[c] # <<>>) =>
                      LET summary == summarize_sorted(Sorted(columns[c]))
                      IN /\ summary.num_values = ExpectedCount(c, rows)
                         /\ SumSeq([k \in 1..Len(summary.most_common) |->
                                summary.most_common[k].frequency]) = ExpectedCount(c, rows)
    /\ prog = "split" =>
           \A c \in 1..NumColumns :
               /\ Len(Concat(sent[c])) <= ExpectedCount(c, Prefix(rows, RowsTaken))
               /\ pc \in {"sentinel", "join", "done"} => Len(Concat(sent[c])) = ExpectedCount(c, rows)
               /\ (pc = "done" /\ ReadValues(files[c]) # <<>>) =>
                      LET summary == summarize_sorted(Sorted(ReadValues(files[c])))
                      IN /\ summary.num_values = ExpectedCount(c, rows)
                         /\ SumSeq([k \in 1..Len(summary.most_common) |->
                                summary.most_common[k].frequency]) = ExpectedCount(c, rows)

\* What holds of the code for C3 and C4: the values put on the queues are the
\* ones the well-formed rows produce, and column file c holds them plus one
\* empty line for each batch without a well-formed row.
ValuesSentAndWritten ==
    LET emptyBatches == Cardinality({k \in 1..Len(Batches) : ~HasWellFormed(Batches[k])})
    IN /\ prog = "split_in_memory" =>
              \A c \in 1..NumColumns : Len(columns[c]) = ExpectedCount(c, Prefix(rows, i))
       /\ (prog = "split" /\ pc \in {"sentinel", "join", "done"}) =>
              \A c \in 1..NumColumns : Len(Concat(sent[c])) = ExpectedCount(c, rows)
       /\ (prog = "split" /\ pc = "done") =>
              \A c \in 1..NumColumns :
                  CountChar(files[c], NEWLINE) = ExpectedCount(c, rows) + emptyBatches

\* C5: the histogram and each column stream do not depend on the batch size.
C5_BatchSizeInvariance ==
    (prog = "split" /\ pc = "done") =>
        \A b \in BatchSizes :
            /\ result.histogram = PopulateHistogram(rows, b)
            /\ \A c \in 1..NumColumns :
                   ReadValues(files[c]) = ReadValues(ColumnFile(header, list_columns, rows, b, c))

\* The column files the writers leave are the ones ColumnFile computes.
ColumnFileAgrees ==
    (prog = "split" /\ pc = "done") =>
        /\ result.histogram = PopulateHistogram(rows, batch_size)
        /\ \A c \in 1..NumColumns :
               files[c] = ColumnFile(header, list_columns, rows, batch_size, c)

(***************************************************************************)
(* Properties of the job (specification SpecJob).                          *)
(***************************************************************************)
\* The values of column c over all parts, as the merged column file holds them.
MergedValues(c) ==
    ReadValues(_concatenate([p \in 1..Len(job.part_paths) |-> job.split_results[p].files[c]]))

\* C6: once every part of P > 1 has been split and the histograms are merged, the
\* histogram is the one the single-partition path computes, and for each column
\* the summary of the merged and sorted column stream is the summary the
\* single-partition path computes for that column.
C6_PartitioningInvariance ==
    (prog = "main" /\ pc = "concatenate" /\ Len(job.part_paths) > 1) =>
        LET single == SplitInMemory(header, list_columns, rows)
        IN /\ histogram = single.histogram
           /\ \A c \in 1..NumColumns :
                  /\ (MergedValues(c) = <<>>) = (single.columns[c] = <<>>)
                  /\ MergedValues(c) # <<>> =>
                         summarize_sorted(Sorted(MergedValues(c)))
                             = summarize_sorted(Sorted(single.columns[c]))

\* The histograms alone are invariant under partitioning.
PartitionedHistogramAgrees ==
    (prog = "main" /\ pc = "concatenate") =>
        histogram = SplitInMemory(header, list_columns, rows).histogram

\* No path of cli.main returns a report.
MainNeverReports == (prog = "main" /\ pc = "done") => error # NoError

\* The stream of column c the job has to order and summarize.
StreamOf(c) == IF job.tiny THEN columns[c] ELSE MergedValues(c)

\* C15: for every configured --most-common K and every non-empty column, the
\* job's most_common for the column has min(K, num_uniques) entries, each a
\* distinct value of the column with its number of occurrences.
C15_MostCommonHonoursK ==
    (prog = "main" /\ pc = "done" /\ job.tiny /\ \A c \in 1..NumColumns : columns[c] # <<>>) =>
        /\ error = NoError
        /\ \A c \in 1..NumColumns :
               LET mc == result.results[c].most_common
               IN /\ Len(mc) = Min(job.most_common, Cardinality(Range(columns[c])))
                  /\ \A k, m \in 1..Len(mc) : k # m => mc[k].value # mc[m].value
                  /\ \A k \in 1..Len(mc) :
                         /\ mc[k].frequency > 0
                         /\ mc[k].frequency = CountIn(columns[c], mc[k].value)

OrderedStreams ==
    (prog = "main" /\ pc \in {"summarize", "concatenate"}) =>
        \A c \in 1..NumColumns :
            /\ NonDecreasing(Sorted(StreamOf(c)))
            /\ SameBag(Sorted(StreamOf(c)), StreamOf(c))

\* The values of column c of every part, part after part.
PartValues(c) ==
    Concat([p \in 1..Len(job.part_paths) |-> ReadValues(job.split_results[p].files[c])])

\* C19: once _concatenate_tables has ended for P >= 1 parts there is one merged
\* stream per column position, and stream c holds the values of column c of
\* every part, each as often as it occurs over the parts, and nothing else.
C19_ConcatenateTables ==
    (prog = "main" /\ ~job.tiny /\ pc \in {"sort", "done"} /\ Len(job.part_paths) >= 1
        /\ DOMAIN job.split_results = 1..Len(job.part_paths)) =>
        /\ error = NoError
        /\ Len(files) = NumColumns
        /\ \A c \in 1..NumColumns : SameBag(ReadValues(files[c]), PartValues(c))

\* What holds of the code for C19: `cat` of the parts' files of one column
\* would give that column's values of every part.
ConcatenatedColumnAgrees ==
    (prog = "main" /\ pc = "concatenate") =>
        \A c \in 1..NumColumns : MergedValues(c) = PartValues(c)

\* C20: when a partitioned job has ended, by success or by failure, every
\* file and directory it created has been deleted.
C20_TransientResourcesDeleted ==
    (prog = "main" /\ ~job.tiny /\ pc = "done") => job.resources = {}

\* What holds of the code for C20: the job's temporary directory, its parts
\* and columns directories and the part files are still there when it ends.
JobLeavesResources ==
    (prog = "main" /\ ~job.tiny /\ pc = "done") =>
        /\ error # NoError
        /\ SplitLargeResources(Len(job.part_paths)) \subseteq job.resources

(***************************************************************************)
(* Properties of the summarizer (specification SpecSummarize).             *)
(***************************************************************************)
\* C7: for a non-empty sorted stream summarize_sorted returns num_values = the
\* stream length, num_uniques = the number of distinct values, min_len and
\* max_len = the extreme value lengths, avg_len's numerator = the sum of all
\* value lengths, and fill_rate = 100 * num_fills / num_values.
C7_SummaryStatistics ==
    (pc = "done" /\ it # <<>> /\ NonDecreasing(it)) =>
        /\ error = NoError
        /\ result.num_values = Len(it)
        /\ result.num_uniques = Cardinality(Range(it))
        /\ result.min_len = MinOf(Range(Lengths(it)))
        /\ result.max_len = MaxOf(Range(Lengths(it)))
        /\ result.avg_len = Ratio(SumSeq(Lengths(it)), Len(it))
        /\ result.fill_rate = Ratio(100 * result.num_fills, result.num_values)

C7_Witness ==
    /\ pc = "done"
    /\ error = NoError
    /\ Len(it) = 4
    /\ result.num_uniques = 3
    /\ result.min_len = 1
    /\ result.max_len = 2

\* C8: for a non-empty sorted stream, num_fills plus the number of empty values
\* of the stream is num_values.
C8_FillsPlusEmpties ==
    (pc = "done" /\ it # <<>> /\ NonDecreasing(it)) =>
        /\ error = NoError
        /\ result.num_fills + Cardinality({k \in 1..Len(it) : it[k] = <<>>}) = result.num_values

C8_Witness ==
    /\ pc = "done"
    /\ error = NoError
    /\ Len(it) = 4
    /\ it[1] = <<>>
    /\ it[2] = <<>>
    /\ result.num_fills = 2

\* C9: for a non-empty non-decreasing input run_length_encode has yielded, when
\* it ends, one (value, run length) pair per maximal run: values strictly
\* increasing, lengths at least 1 and summing to the input length, the last run
\* included; while it runs, the pairs yielded and the current run make up the
\* values consumed.
C9_RunLengthEncoding ==
    (it # <<>> /\ NonDecreasing(it)) =>
        /\ pc = "loop" =>
               Expand(Append(emitted, <<run.value, run.length>>)) = Prefix(it, pos)
        /\ pc \in {"return", "done"} =>
               /\ Expand(emitted) = it
               /\ Len(emitted) = Cardinality(Range(it))
               /\ SumSeq([k \in 1..Len(emitted) |-> emitted[k][2]]) = Len(it)
               /\ emitted[Len(emitted)][1] = it[Len(it)]
        /\ \A k \in 1..Len(emitted) : emitted[k][2] >= 1
        /\ \A k \in 1..(Len(emitted) - 1) : StrLess(emitted[k][1], emitted[k + 1][1])

C9_Witness ==
    /\ pc = "done"
    /\ Len(it) = 4
    /\ Len(emitted) = 2
    /\ emitted[2][2] = 3

\* C10: an element smaller than its predecessor ends summarization at that
\* element with an unsorted-input error and no summary, and the error names
\* both the previous and the current value.
C10_UnsortedInputError ==
    (pc = "done" /\ HasDescent(it)) =>
        /\ error.type = "ValueError"
        /\ result = [none |-> TRUE]
        /\ pos = FirstDescent(it)
        /\ {it[pos - 1], it[pos]} \subseteq error.refs

\* What holds of the code: the error is raised at the first descent and no
\* summary is returned.
UnsortedInputStops ==
    (pc = "done" /\ HasDescent(it)) =>
        /\ error = UnsortedError
        /\ result = [none |-> TRUE]
        /\ pos = FirstDescent(it)

\* C11: summarizing a stream that yields no value ends in a dedicated
\* EmptyColumnError, without a summary and without a division by zero.
C11_EmptyColumnError ==
    (pc = "done" /\ it = <<>>) =>
        /\ error.type = "EmptyColumnError"
        /\ error.type # "ZeroDivisionError"
        /\ result = [none |-> TRUE]

\* What holds of the code: no summary is returned for the empty stream, and
\* the error is the interpreter's, not one of csvinsight's.
EmptyStreamFails ==
    (pc = "done" /\ it = <<>>) =>
        /\ error \in EmptyIteratorErrors
        /\ result = [none |-> TRUE]

\* What holds of summarize_sorted for C14 and C15: most_common is in descending
\* (frequency, value) order and has min(MOST_COMMON, num_uniques) entries, each
\* a distinct value with its number of occurrences.
MostCommonDefaultLimit ==
    (pc = "done" /\ error = NoError) =>
        LET mc == result.most_common
        IN /\ MostCommonOrder(mc)
           /\ Len(mc) = Min(MOST_COMMON, result.num_uniques)
           /\ \A k, m \in 1..Len(mc) : k # m => mc[k].value # mc[m].value
           /\ \A k \in 1..Len(mc) : mc[k].frequency = CountIn(it, mc[k].value)

(***************************************************************************)
(* Properties of the Top-N set (specification SpecTopN).                   *)
(***************************************************************************)
\* C12: after any sequence of pushes into a TopN of limit K >= 1 the set holds
\* min(K, number of pushes) entries, and the multiset of their frequencies is
\* the multiset of the K largest frequencies pushed so far.
C12_TopNHoldsLargestFrequencies ==
    prog = "TopN" =>
        /\ Len(acc.heap) = Min(acc.limit, pos)
        /\ SortedInts(Frequencies(acc.heap))
               = LastN(SortedInts(Frequencies(Prefix(it, pos))), acc.limit)

C12_Witness ==
    /\ prog = "TopN"
    /\ acc.limit = 2
    /\ pos = 3
    /\ Frequencies(it) = <<1, 3, 2>>
    /\ Frequencies(acc.heap) = <<2, 3>>

\* C13: a push into a full TopN removes the least entry under (frequency, value)
\* order and inserts the new entry if and only if the new frequency is greater
\* than the least frequency; otherwise, also when the frequencies are equal and
\* whatever the value, the set is left as it was.
C13_PushIntoFullSet ==
    [][(prog = "TopN" /\ pos' = pos + 1 /\ Len(acc.heap) = acc.limit) =>
          LET e == it[pos + 1]
              m == MinEntry(acc.heap)
              less(x) == IF x = m THEN 1 ELSE 0
              more(x) == IF x = e THEN 1 ELSE 0
          IN IF e.frequency > m.frequency
             THEN /\ Len(acc'.heap) = Len(acc.heap)
                  /\ \A x \in Range(acc.heap) \cup {e} :
                         CountIn(acc'.heap, x) = CountIn(acc.heap, x) - less(x) + more(x)
             ELSE acc'.heap = acc.heap]_vars

\* A full set of one entry has discarded another value with the same frequency
\* and has then replaced its entry by one with a greater frequency.
C13_Witness ==
    /\ prog = "TopN"
    /\ acc.limit = 1
    /\ pos = 3
    /\ it[1] = [frequency |-> 1, value |-> <<97>>]
    /\ it[2] = [frequency |-> 1, value |-> <<98>>]
    /\ it[3] = [frequency |-> 2, value |-> <<98>>]
    /\ acc.heap = <<it[3]>>

\* C14: to_list returns the retained entries in ascending (frequency, value)
\* order, and its reverse, which summarize_sorted reports as most_common, is in
\* descending frequency order with equal frequencies in descending value order.
C14_ToListAscending ==
    (prog = "TopN" /\ pc = "listed") =>
        /\ SameBag(result.to_list, acc.heap)
        /\ \A k \in 1..(Len(result.to_list) - 1) :
               ~EntryLess(result.to_list[k + 1], result.to_list[k])
        /\ MostCommonOrder(Reversed(result.to_list))

C14_Witness ==
    /\ prog = "TopN"
    /\ pc = "listed"
    /\ acc.limit = 2
    /\ pos = 3
    /\ it[1] = [frequency |-> 1, value |-> <<98>>]
    /\ it[2] = [frequency |-> 1, value |-> <<97>>]
    /\ it[3] = [frequency |-> 1, value |-> <<98>>]
    /\ result.to_list = <<it[2], it[1]>>

(***************************************************************************)
(* Properties of _split_large_file (specification SpecSplitLarge).         *)
(***************************************************************************)
\* C17: the parts, read as CSV, hold the rows after the header and only them:
\* every row in exactly one part, the rows of a part contiguous and in input
\* order, none cut in two, the header in no part, and at most L rows per part.
C17_RowsPartitioned ==
    (prog = "_split_large_file" /\ pc = "parts"
        /\ DOMAIN job.split_results = 1..Len(job.part_paths)) =>
        /\ Concat([p \in 1..Len(job.part_paths) |-> job.split_results[p].rows])
               = Tail(CsvRead(it))
        /\ \A p \in 1..Len(job.part_paths) :
               Len(job.split_results[p].rows) <= job.lines_per_part

\* What holds of the code for C17: the parts hold the physical lines after
\* the first one, in order, at most L lines each, and no part is empty.
LinesPartitioned ==
    (prog = "_split_large_file" /\ pc = "parts") =>
        /\ Concat(job.part_paths) = Tail(it)
        /\ \A p \in 1..Len(job.part_paths) :
               /\ job.part_paths[p] # <<>>
               /\ Len(job.part_paths[p]) <= job.lines_per_part

(***************************************************************************)
(* Properties of _aggregate_histograms (specification SpecAggregate).      *)
(***************************************************************************)
\* C18: no step of _aggregate_histograms changes an input histogram, and the
\* histogram it returns maps each row length to the sum of that length's counts
\* over the inputs: whatever the order of the inputs, empty for no input, and
\* with a total that is the sum of the inputs' totals.
C18_AggregateHistograms ==
    [][prog = "_aggregate_histograms" =>
          /\ it' = it
          /\ pc' = "done" =>
                 LET agg == result'.histogram
                     n == Len(it)
                 IN /\ DOMAIN agg = UNION {DOMAIN it[k] : k \in 1..n}
                    /\ \A L \in HistogramLengths :
                           Count(agg, L) = SumSeq([k \in 1..n |-> Count(it[k], L)])
                    /\ \A perm \in Permutations(1..n) :
                           _aggregate_histograms([k \in 1..n |-> it[perm[k]]]) = agg
                    /\ n = 0 => agg = EmptyCounter
                    /\ CounterTotal(agg) = SumSeq([k \in 1..n |-> CounterTotal(it[k])])]_vars

C18_Witness ==
    /\ prog = "_aggregate_histograms"
    /\ pc = "done"
    /\ Len(it) = 3
    /\ DOMAIN it[1] = {1}
    /\ DOMAIN it[2] = {1, 2}
    /\ DOMAIN it[3] = {2}
    /\ Count(result.histogram, 1) = 3
    /\ Count(result.histogram, 2) = 4

(***************************************************************************)
(* Failure and barriers of the partitioned job (specification SpecJob).    *)
(***************************************************************************)
\* The job has ended with a report / without one.
JobDone == prog = "main" /\ pc = "done" /\ error = NoError
JobFailed == prog = "main" /\ pc = "done" /\ error # NoError

\* Every part has been split by its worker.
AllPartsSplit == DOMAIN job.split_results = 1..Len(job.part_paths)

MergeAfterAllPartsSplit ==
    (prog = "main" /\ ~job.tiny /\ pc \in {"concatenate", "sort"}) => AllPartsSplit

(***************************************************************************)
(* Completion of the threaded split (specification Spec).                  *)
(***************************************************************************)
\* C23: when split() returns, every writer has written all its batches, has
\* closed its file and has exited.
C23_StreamsFinalizedOnReturn ==
    (prog = "split" /\ pc = "done") =>
        \A c \in 1..NumColumns :
            /\ files[c] = ColumnFile(header, list_columns, rows, batch_size, c)
            /\ closed[c]
            /\ wpc[c] = "exit"

\* What queue.join() does guarantee at the return: every batch has been handed
\* to write(), and every writer has taken its sentinel.
BatchesWrittenOnReturn ==
    (prog = "split" /\ pc = "done") =>
        \A c \in 1..NumColumns :
            /\ files[c] = ColumnFile(header, list_columns, rows, batch_size, c)
            /\ queues[c] = <<>>
            /\ wpc[c] \in {"close", "exit"}

(***************************************************************************)
(* Termination and the bounded queues of split.split (specification        *)
(* SpecBounded).                                                           *)
(***************************************************************************)
\* The sentinel of column c has been put on its queue.
SentinelPut(c) == (pc = "sentinel" /\ qnext > c) \/ pc \in {"join", "done"}

\* The sentinels of column c that are in its queue or in its writer's hands.
SentinelsOf(c) ==
    Cardinality({k \in 1..Len(queues[c]) : queues[c][k].sentinel})
        + (IF wlines[c].sentinel THEN 1 ELSE 0)

\* The batches of column c, as the dispatcher builds them.
ColumnBatches(c) == [k \in 1..Len(Batches) |-> BatchColumn(header, list_columns, c, Batches[k])]

\* The bytes that writing the first k batches put on the queue of c leaves.
WrittenBytes(c, k) == Concat([j \in 1..k |-> WritePy3(sent[c][j])])

SentinelDiscipline ==
    \A c \in 1..NumColumns :
        /\ \A k \in 1..Len(queues[c]) : queues[c][k].sentinel => k = Len(queues[c])
        /\ wlines[c].sentinel => queues[c] = <<>>
        /\ SentinelsOf(c) = (IF SentinelPut(c) THEN 1 ELSE 0)
        /\ SentinelPut(c) => sent[c] = ColumnBatches(c)
        /\ wpc[c] \in {"close", "exit"} =>
               /\ wlines[c].sentinel
               /\ files[c] = WrittenBytes(c, Len(Batches))

SplitTerminated ==
    /\ pc = "done"
    /\ \A c \in 1..NumColumns : wpc[c] = "exit" /\ closed[c]

\* C24: for every finite input, every writer gets all the batches of its
\* column and then exactly one sentinel, nothing is put on a queue after its
\* sentinel, and with threads that keep running the dispatcher returns and
\* every writer exits: no deadlock on the bounded queues.
C24_SplitTerminates == []SentinelDiscipline /\ <>SplitTerminated

C24_Witness ==
    /\ SplitTerminated
    /\ Len(rows) = MaxLongRows
    /\ \A c \in 1..NumColumns : Len(sent[c]) = MaxLongRows /\ files[c] = WrittenBytes(c, MaxLongRows)

\* The batches of column c that are on its queue, and the one its writer holds
\* and has not written yet.
QueuedBatches(c) ==
    LET n == Cardinality({k \in 1..Len(queues[c]) : ~queues[c][k].sentinel})
    IN [k \in 1..n |-> queues[c][k].lines]

HeldBatches(c) == IF wpc[c] = "write" THEN <<wlines[c].lines>> ELSE <<>>

\* C25: a column queue never holds more than MAX_QUEUE_SIZE items; the
\* dispatcher's put on a full queue cannot proceed; and the batches put on a
\* queue are, in order and each once, those already written to the file, then
\* the one the writer holds, then those queued.
C25_QueuesBounded ==
    \A c \in 1..NumColumns :
        /\ Len(queues[c]) <= MAX_QUEUE_SIZE
        /\ (pc \in {"put", "sentinel"} /\ qnext = c /\ Len(queues[c]) = MAX_QUEUE_SIZE) =>
               ~ENABLED DispatcherThread
        /\ LET waiting == HeldBatches(c) \o QueuedBatches(c)
               k == Len(sent[c]) - Len(waiting)
           IN /\ k >= 0
              /\ files[c] = WrittenBytes(c, k)
              /\ SubSeq(sent[c], k + 1, Len(sent[c])) = waiting

C25_Witness ==
    /\ pc = "put"
    /\ qnext = 1
    /\ Len(queues[1]) = MAX_QUEUE_SIZE
    /\ ~ENABLED PopulatePut
    /\ wpc[1] = "write"
    /\ Len(sent[1]) = MAX_QUEUE_SIZE + 1
    /\ files[1] = <<>>

(***************************************************************************)
(* Writers and files (specification Spec).                                 *)
(***************************************************************************)
\* C26: a step that changes the file of column c is a step of writer c, the
\* one task that writes it, and it changes no other column's file; the paths
\* split returns are one per column, all different.
C26_OneWriterPerFile ==
    [][prog = "split" =>
          /\ \A c \in 1..NumColumns :
                 files'[c] # files[c] =>
                     /\ wpc[c] = "write"
                     /\ wpc'[c] = "task_done"
                     /\ \A d \in 1..NumColumns \ {c} : files'[d] = files[d] /\ wpc'[d] = wpc[d]
          /\ pc' = "done" =>
                 \A c, d \in 1..NumColumns : result'.paths[c] = result'.paths[d] => c = d]_vars

C26_Witness ==
    /\ prog = "split"
    /\ wpc[1] = "write"
    /\ wpc[2] = "task_done"
    /\ files[1] # <<>>
    /\ files[2] # <<>>
    /\ files[1] # files[2]

\* The workers of the legacy map() open files with their own suffix, so no
\* two of them open the same file, whatever the column names.
MapWorkerFilesDisjoint ==
    \A w1, w2 \in 0..(_NUM_WORKERS - 1) :
        w1 # w2 => MapWorkerFiles(header, w1) \cap MapWorkerFiles(header, w2) = {}

\* The parts of a partitioned job have their own directory of column files.
PartFilesDisjoint ==
    prog = "main" =>
        \A p, q \in DOMAIN job.split_results :
            p # q => SplitResources(p, NumColumns) \cap SplitResources(q, NumColumns) = {}

(***************************************************************************)
(* Failing writes (specification SpecFaulty).                              *)
(***************************************************************************)
\* C27: once a writer's write has failed and nothing more can happen, split
\* has ended with an error and without a result: it is not left blocked on a
\* full queue or in queue.join().
C27_WriteFailureIsFatal ==
    (prog = "split" /\ (\E c \in 1..NumColumns : wpc[c] = "dead") /\ ~ENABLED NextFaulty) =>
        /\ pc = "done"
        /\ error # NoError
        /\ result = [none |-> TRUE]

\* After a failed write split never returns, with or without an error.
FailedWriteNeverReturns ==
    (prog = "split" /\ \E c \in 1..NumColumns : wpc[c] = "dead") =>
        /\ pc # "done"
        /\ error = NoError

(***************************************************************************)
(* Empty input of split_in_memory (specification Spec).                    *)
(***************************************************************************)
\* C28: split_in_memory on an input with no row after the header, or with
\* nothing at all, ends with ValueError and returns nothing.
C28_NoRowsIsAnError ==
    (prog = "split_in_memory" /\ pc = "done" /\ rows = <<>>) =>
        /\ error.type = "ValueError"
        /\ result = [none |-> TRUE]

\* What the code does: ValueError for the reader that yields nothing, and for
\* the reader that yields a header only the header, an empty histogram and one
\* empty column per header name.
EmptyReaderRaises ==
    (prog = "split_in_memory" /\ pc = "done") =>
        IF it = <<>>
        THEN error.type = "ValueError" /\ result = [none |-> TRUE]
        ELSE /\ error = NoError
             /\ result.header = header
             /\ rows = <<>> =>
                    /\ result.histogram = EmptyCounter
                    /\ result.columns = [j \in 1..NumColumns |-> <<>>]

(***************************************************************************)
(* stream.Column against summarize_sorted (specification SpecColumn).      *)
(***************************************************************************)
\* C29: for every non-empty sequence of values, added in whatever order and by
\* add or extend, Column.summarize has the num_values, num_fills, fill_rate,
\* min_len, max_len and avg_len that summarize_sorted has on the same values
\* sorted, with num_uniques = -1 and an empty most_common.
C29_ColumnAgreesWithSummarizeSorted ==
    (prog = "Column" /\ pc = "done" /\ it # <<>>) =>
        LET sorted == summarize_sorted(Sorted(it))
        IN /\ error = NoError
           /\ result.num_values = sorted.num_values
           /\ result.num_fills = sorted.num_fills
           /\ result.fill_rate = sorted.fill_rate
           /\ result.min_len = sorted.min_len
           /\ result.max_len = sorted.max_len
           /\ result.avg_len = sorted.avg_len
           /\ result.num_uniques = -1
           /\ result.most_common = <<>>

C29_Witness ==
    /\ prog = "Column"
    /\ pc = "done"
    /\ it = <<<<97, 97>>, <<>>, <<98>>, <<97>>>>
    /\ result.num_values = 4
    /\ result.num_fills = 3
    /\ result.min_len = 0
    /\ result.max_len = 2
    /\ result.avg_len = Ratio(4, 4)
    /\ summarize_sorted(Sorted(it)).num_uniques = 4

(***************************************************************************)
(* The report cli.main builds from the header, the histogram and the       *)
(* results (specification SpecReport).                                     *)
(***************************************************************************)
MaxReportValues == 2

\* The column streams the results are made from: one per header position.
ReportStreams == SeqsUpTo(Values, MaxReportValues) \ {<<>>}

\* {name: results for (name, results) in zip(header, results)}: a dictionary,
\* in which a later pair replaces an earlier one of the same name.
ReportResults(hdr, res) ==
    [name \in {hdr[j] : j \in DOMAIN hdr} |->
        LET last == CHOOSE j \in DOMAIN hdr :
                        /\ hdr[j] = name
                        /\ \A k \in DOMAIN hdr : hdr[k] = name => k <= j
        IN res[last]]

\* report_as_json = {'path': ..., 'histogram': ..., 'header': ..., 'results': ...}
MainBuildReport ==
    /\ prog = "report"
    /\ pc = "results"
    /\ result' = [histogram |-> histogram, header |-> header,
                  results |-> ReportResults(header, stats)]
    /\ pc' = "done"
    /\ UNCHANGED <<inputVars, job, i, histogram, memVars, splitVars, fout, sumVars, error>>

InitReport ==
    /\ prog = "report"
    /\ header \in Headers
    /\ list_columns = {}
    /\ rows = <<>>
    /\ batch_size = DEFAULT_BATCH_SIZE
    /\ pc = "results"
    /\ i = 0
    /\ histogram = EmptyCounter
    /\ columns \in [1..Len(header) -> ReportStreams]
    /\ stats = [j \in 1..Len(header) |-> summarize_sorted(Sorted(columns[j]))]
    /\ IdleSplit
    /\ fout = [n \in {} |-> <<>>]
    /\ job = NoJob
    /\ IdleSummarize
    /\ result = [none |-> TRUE]
    /\ error = NoError

NextReport == MainBuildReport

SpecReport == InitReport /\ [][NextReport]_vars

\* C30: the report has one summary per header position, the summary of
\* position j being that of column j, also when two positions have one name.
C30_OneSummaryPerPosition ==
    (prog = "report" /\ pc = "done") =>
        /\ Cardinality(DOMAIN result.results) = Len(header)
        /\ \A j \in 1..Len(header) : result.results[header[j]] = stats[j]

\* With all names different the report does have the summary of each position
\* under its name.
DistinctNamesReported ==
    (prog = "report" /\ pc = "done" /\ header[1] # header[2]) =>
        /\ Cardinality(DOMAIN result.results) = Len(header)
        /\ \A j \in 1..Len(header) : result.results[header[j]] = stats[j]

\* The results main would build the report from never exist: no job ends with
\* results.
JobHasNoResults == prog = "main" => result = [none |-> TRUE]

(***************************************************************************)
(* What a writer thread leaves in its file (specification Spec).           *)
(***************************************************************************)
\* Each value followed by one newline.
RECURSIVE ValueLines(_)
ValueLines(values) ==
    IF values = <<>> THEN <<>> ELSE Head(values) \o <<NEWLINE>> \o ValueLines(Tail(values))

\* The number of batches of column c its writer has written.
BatchesWritten(c) == Len(sent[c]) - Len(HeldBatches(c)) - Len(QueuedBatches(c))

\* C31: the file of a writer holds the values of the batches it has written,
\* in dequeue order, each followed by one newline, and nothing else; nothing is
\* written for the sentinel; every dequeued item gets one task_done; the file
\* is closed once, after the sentinel.
C31_WriterWritesValuesOnly ==
    prog = "split" =>
        \A c \in 1..NumColumns :
            /\ files[c] = ValueLines(Concat(SubSeq(sent[c], 1, BatchesWritten(c))))
            /\ unfinished[c] = Len(queues[c]) + (IF wpc[c] \in {"write", "task_done"} THEN 1 ELSE 0)
            /\ closed[c] <=> wpc[c] = "exit"
            /\ wpc[c] \in {"close", "exit"} => wlines[c].sentinel /\ queues[c] = <<>>

\* What the writer does: one write per batch, the values joined by newlines
\* and one more newline at the end, so a batch without values leaves an empty
\* line; the items, the task_done calls and the close are as C31 has them.
WriterWritesBatches ==
    prog = "split" =>
        \A c \in 1..NumColumns :
            /\ files[c] = WrittenBytes(c, BatchesWritten(c))
            /\ unfinished[c] = Len(queues[c]) + (IF wpc[c] \in {"write", "task_done"} THEN 1 ELSE 0)
            /\ closed[c] <=> wpc[c] = "exit"
            /\ wpc[c] \in {"close", "exit"} => wlines[c].sentinel /\ queues[c] = <<>>

(***************************************************************************)
(* csvinsight.SortedColumn and reduce, the legacy summarizer               *)
(* (specification SpecReduce).                                             *)
(***************************************************************************)
\* None, which is no string: a sequence that no value of a stream equals.
PyNone == <<-1>>

\* SortedColumn.__init__ (csvinsight.py:212-217, 155-161).
NewSortedColumn ==
    [num_values |-> 0, num_fills |-> 0, max_len |-> 0, min_len |-> sys_maxsize,
     sum_len |-> 0, num_uniques |-> 0, run_length |-> 0, prev_val |-> PyNone,
     topn |-> <<>>]

\* Column._add_value(line) (csvinsight.py:171-178).
LegacyAddValue(col, line) ==
    [col EXCEPT !.num_values = @ + 1,
                !.num_fills = IF line # <<>> THEN @ + 1 ELSE @,
                !.max_len = Max(Len(line), @),
                !.min_len = Min(Len(line), @),
                !.sum_len = @ + Len(line)]

\* column = column_class(1, 'column_name'): sys.maxint is there in Python 2
\* only; Python 3 raises AttributeError.
ReduceNew ==
    /\ prog = "reduce"
    /\ pc = "new"
    /\ \/ /\ pc' = "loop"
          /\ UNCHANGED error
       \/ /\ pc' = "done"
          /\ error' = [type |-> "AttributeError", refs |-> {}]
    /\ UNCHANGED <<inputVars, job, i, histogram, memVars, splitVars, fout, sumVars, result>>

\* column.add(line.rstrip(b'\n')): SortedColumn._add_value. In Python 2 no
\* string is less than None.
ReduceAdd ==
    /\ prog = "reduce"
    /\ pc = "loop"
    /\ pos < Len(it)
    /\ LET line == RStrip(it[pos + 1], NEWLINE)
           prev == acc.prev_val
       IN IF prev # PyNone /\ StrLess(line, prev)
          THEN /\ error' = [type |-> "ValueError", refs |-> {line, prev}]
               /\ pc' = "done"
               /\ UNCHANGED <<pos, acc, emitted>>
          ELSE /\ IF prev = PyNone
                  THEN /\ acc' = LegacyAddValue(
                                     [acc EXCEPT !.num_uniques = 1, !.run_length = 1,
                                                 !.prev_val = line], line)
                       /\ UNCHANGED emitted
                  ELSE IF line # prev
                  THEN /\ acc' = LegacyAddValue(
                                     [acc EXCEPT !.topn = TopNPush(@, MOST_COMMON,
                                                              acc.run_length, prev),
                                                 !.num_uniques = @ + 1, !.run_length = 1,
                                                 !.prev_val = line], line)
                       /\ emitted' = Append(emitted, [frequency |-> acc.run_length,
                                                      value |-> prev])
                  ELSE /\ acc' = LegacyAddValue(
                                     [acc EXCEPT !.run_length = @ + 1, !.prev_val = line], line)
                       /\ UNCHANGED emitted
               /\ pos' = pos + 1
               /\ UNCHANGED <<pc, error>>
    /\ UNCHANGED <<inputVars, job, i, histogram, memVars, splitVars, fout, it, run, result>>

\* column.finalize(): the last run is pushed, whatever it is.
ReduceFinalize ==
    /\ prog = "reduce"
    /\ pc = "loop"
    /\ pos = Len(it)
    /\ acc' = [acc EXCEPT !.topn = TopNPush(@, MOST_COMMON, acc.run_length, acc.prev_val),
                          !.prev_val = PyNone, !.run_length = 0]
    /\ emitted' = Append(emitted, [frequency |-> acc.run_length, value |-> acc.prev_val])
    /\ pc' = "finalized"
    /\ UNCHANGED <<inputVars, job, i, histogram, memVars, splitVars, fout, it, pos, run,
                   result, error>>

\* column.get_summary(): the quotients divide by the number of values.
ReduceSummary ==
    /\ prog = "reduce"
    /\ pc = "finalized"
    /\ pc' = "done"
    /\ IF acc.num_values = 0
       THEN /\ error' = [type |-> "ZeroDivisionError", refs |-> {}]
            /\ UNCHANGED result
       ELSE /\ result' = [num_values |-> acc.num_values,
                          num_fills |-> acc.num_fills,
                          fill_rate |-> Ratio(100 * acc.num_fills, acc.num_values),
                          max_len |-> acc.max_len,
                          min_len |-> acc.min_len,
                          avg_len |-> Ratio(acc.sum_len, acc.num_values),
                          num_uniques |-> acc.num_uniques,
                          most_common |-> Reversed(TopNToList(acc.topn))]
            /\ UNCHANGED error
    /\ UNCHANGED <<inputVars, job, i, histogram, memVars, splitVars, fout, sumVars>>

InitReduce ==
    /\ prog = "reduce"
    /\ header = <<>>
    /\ list_columns = {}
    /\ rows = <<>>
    /\ batch_size = DEFAULT_BATCH_SIZE
    /\ pc = "new"
    /\ i = 0
    /\ histogram = EmptyCounter
    /\ columns = <<>>
    /\ stats = <<>>
    /\ IdleSplit
    /\ fout = [n \in {} |-> <<>>]
    /\ job = NoJob
    /\ it \in Streams
    /\ pos = 0
    /\ run = [value |-> <<>>, length |-> 0]
    /\ emitted = <<>>
    /\ acc = NewSortedColumn
    /\ result = [none |-> TRUE]
    /\ error = NoError

NextReduce ==
    \/ ReduceNew
    \/ ReduceAdd
    \/ ReduceFinalize
    \/ ReduceSummary

SpecReduce == InitReduce /\ [][NextReduce]_vars

\* C32: every entry a summarizer pushes into its Top-K set has a frequency of
\* at least 1 and a value that occurs in the stream, the entry finalize pushes
\* included, for every stream, the empty one included.
C32_PushedEntriesAreRuns ==
    prog = "reduce" =>
        \A k \in 1..Len(emitted) :
            /\ emitted[k].frequency >= 1
            /\ emitted[k].value \in Range(it)

\* For a stream with values the entries SortedColumn pushes are its runs.
NonEmptyStreamPushesRuns ==
    (prog = "reduce" /\ it # <<>>) =>
        \A k \in 1..Len(emitted) :
            /\ emitted[k].frequency >= 1
            /\ emitted[k].value \in Range(it)

\* summarize_sorted pushes the runs run_length_encode yields: their lengths
\* are at least 1 and their values are values of the stream.
SummarizeSortedPushesRuns ==
    prog = "summarize_sorted" =>
        \A k \in 1..Len(acc.topn) :
            /\ acc.topn[k].frequency >= 1
            /\ acc.topn[k].value \in Range(it)

(***************************************************************************)
(* cli._concatenate_tables on tables of any widths (specification          *)
(* SpecConcatTables).                                                      *)
(***************************************************************************)
MaxTables == 3
MaxTableColumns == 3

\* Table p with n columns: the paths of its column files.
TableOf(p, n) == [c \in 1..n |-> Resource("column_file", p, c)]

Tables ==
    UNION {{[p \in 1..n |-> TableOf(p, widths[p])] : widths \in [1..n -> 0..MaxTableColumns]} :
              n \in 0..MaxTables}

\* The files of the tables.
TableFiles(tables) == UNION {Range(tables[p]) : p \in 1..Len(tables)}

TablesDiffer(tables) == \E p \in 1..Len(tables) : Len(tables[p]) # Len(tables[1])

\* _concatenate_tables that goes to the columns without looking at the widths.
ConcatTablesUnchecked ==
    /\ prog = "_concatenate_tables"
    /\ pc = "check"
    /\ IF it = <<>>
       THEN /\ error' = [type |-> "IndexError", refs |-> {}]
            /\ pc' = "done"
       ELSE /\ pc' = "columns"
            /\ UNCHANGED error
    /\ UNCHANGED <<inputVars, job, i, histogram, memVars, splitVars, fout, sumVars, result>>

\* num_columns = len(tables[0]) and the loop that compares every table's
\* width with it.
ConcatTablesCheck ==
    /\ prog = "_concatenate_tables"
    /\ pc = "check"
    /\ IF it = <<>>
       THEN /\ error' = [type |-> "IndexError", refs |-> {}]
            /\ pc' = "done"
       ELSE IF TablesDiffer(it)
       THEN /\ error' = [type |-> "ValueError", refs |-> {}]
            /\ pc' = "done"
       ELSE /\ pc' = "columns"
            /\ UNCHANGED error
    /\ UNCHANGED <<inputVars, job, i, histogram, memVars, splitVars, fout, sumVars, result>>

\* _concatenate of the next column: mkstemp makes the output file, and
\* split.make_batches is not there.
ConcatTablesColumn ==
    /\ prog = "_concatenate_tables"
    /\ pc = "columns"
    /\ i < Len(it[1])
    /\ "make_batches" \notin split_module_names
    /\ job' = [job EXCEPT !.resources = @ \cup {Resource("merged", 0, i + 1)}]
    /\ error' = [type |-> "AttributeError", refs |-> {}]
    /\ pc' = "done"
    /\ UNCHANGED <<inputVars, i, histogram, memVars, splitVars, fout, sumVars, result>>

\* return concat_paths
ConcatTablesReturn ==
    /\ prog = "_concatenate_tables"
    /\ pc = "columns"
    /\ i = Len(it[1])
    /\ result' = [paths |-> <<>>]
    /\ pc' = "done"
    /\ UNCHANGED <<inputVars, job, i, histogram, memVars, splitVars, fout, sumVars, error>>

InitConcatTables ==
    /\ prog = "_concatenate_tables"
    /\ header = <<>>
    /\ list_columns = {}
    /\ rows = <<>>
    /\ batch_size = DEFAULT_BATCH_SIZE
    /\ pc = "check"
    /\ i = 0
    /\ histogram = EmptyCounter
    /\ columns = <<>>
    /\ stats = <<>>
    /\ IdleSplit
    /\ fout = [n \in {} |-> <<>>]
    /\ it \in Tables
    /\ job = [NoJob EXCEPT !.resources = TableFiles(it)]
    /\ pos = 0
    /\ run = [value |-> <<>>, length |-> 0]
    /\ emitted = <<>>
    /\ acc = NewAcc
    /\ result = [none |-> TRUE]
    /\ error = NoError

NextConcatTables ==
    \/ ConcatTablesCheck
    \/ ConcatTablesColumn
    \/ ConcatTablesReturn

SpecConcatTables == InitConcatTables /\ [][NextConcatTables]_vars

\* C33: for tables that do not all have the same number of columns,
\* _concatenate_tables ends with ValueError and returns nothing, and at no
\* point has a file been created or deleted: the files are those of the tables.
C33_UnequalTablesRaiseFirst ==
    (prog = "_concatenate_tables" /\ it # <<>> /\ TablesDiffer(it)) =>
        /\ job.resources = TableFiles(it)
        /\ pc = "done" => (error.type = "ValueError" /\ result = [none |-> TRUE])
        /\ pc # "done" => pc = "check"

C33_Witness ==
    /\ prog = "_concatenate_tables"
    /\ pc = "done"
    /\ Len(it) = 3
    /\ Len(it[1]) = 2
    /\ Len(it[2]) = 2
    /\ Len(it[3]) = 1
    /\ error.type = "ValueError"
    /\ Cardinality(job.resources) = 5

(***************************************************************************)
(* The settings of csvi: command line, configuration file and defaults     *)
(* (specification SpecConfig).                                             *)
(***************************************************************************)
\* The dialect parameters followed here, with their defaults from
\* _CSV_DIALECT_PARAMS, and the defaults of --list-separator and --list-fields.
DialectKeys == <<"delimiter", "quoting">>
SettingDefaults ==
    [delimiter |-> "|", quoting |-> "QUOTE_NONE", list_separator |-> ";", list_fields |-> <<>>]

SettingKeys == DOMAIN SettingDefaults

SettingValues ==
    [delimiter : {"|", ","}, quoting : {"QUOTE_NONE", "QUOTE_ALL"},
     list_separator : {";", ","}, list_fields : {<<"list">>, <<"value">>}]

\* A dictionary of settings: some of the keys, each with one of its values.
Settings == {[k \in K |-> full[k]] : full \in SettingValues, K \in SUBSET SettingKeys}

\* dict.get(key, default)
DictGet(d, key, default) == IF key \in DOMAIN d THEN d[key] ELSE default

\* The 'key=value' strings of --dialect, kept as pairs.
DialectPair(key, value) == [key |-> key, value |-> value]

RECURSIVE PairsOf(_, _)
PairsOf(d, keys) ==
    IF keys = <<>> THEN <<>>
    ELSE (IF Head(keys) \in DOMAIN d THEN <<DialectPair(Head(keys), d[Head(keys)])>> ELSE <<>>)
             \o PairsOf(d, Tail(keys))

\* args.dialect.insert(0, 'key=value') for each dialect key of the
\* configuration, one after the other.
RECURSIVE InsertConfigPairs(_, _, _)
InsertConfigPairs(dialect, config, keys) ==
    IF keys = <<>> THEN dialect
    ELSE InsertConfigPairs(
             IF Head(keys) \in DOMAIN config
             THEN <<DialectPair(Head(keys), config[Head(keys)])>> \o dialect
             ELSE dialect,
             config, Tail(keys))

\* dict(pair.split('=', 1) for pair in pairs): a later pair replaces an
\* earlier one of the same key.
RECURSIVE DictOfPairs(_)
DictOfPairs(pairs) ==
    IF pairs = <<>> THEN <<>>
    ELSE LET before == DictOfPairs(SubSeq(pairs, 1, Len(pairs) - 1))
             last == pairs[Len(pairs)]
         IN [k \in DOMAIN before \cup {last.key} |->
                IF k = last.key THEN last.value ELSE before[k]]

\* parser.parse_args(): what the command line gives, and the defaults.
ParseArgs(cl) ==
    [list_separator |-> DictGet(cl, "list_separator", SettingDefaults.list_separator),
     list_fields |-> DictGet(cl, "list_fields", SettingDefaults.list_fields),
     dialect |-> PairsOf(cl, DialectKeys)]

\* _override_config(fin, args) with the configuration yaml.load returns.
OverrideConfig(config, args) ==
    [list_separator |-> DictGet(config, "list_separator", args.list_separator),
     list_fields |-> DictGet(config, "list_fields", args.list_fields),
     dialect |-> InsertConfigPairs(args.dialect, config, DialectKeys)]

\* Dialect(**kwargs): the given parameters, the defaults for the others.
ParseDialect(pairs) ==
    LET kwargs == DictOfPairs(pairs)
    IN [k \in Range(DialectKeys) |-> DictGet(kwargs, k, SettingDefaults[k])]

\* if args.config: _override_config(fin, args)
MainOverrideConfig ==
    /\ prog = "config"
    /\ pc = "config"
    /\ acc' = OverrideConfig(run, acc)
    /\ pc' = "dialect"
    /\ UNCHANGED <<inputVars, job, i, histogram, memVars, splitVars, fout, it, pos, run,
                   emitted, result, error>>

\* csv_dialect = _parse_dialect(args.dialect): the settings the job runs with.
MainParseDialect ==
    /\ prog = "config"
    /\ pc = "dialect"
    /\ result' = [list_separator |-> acc.list_separator, list_fields |-> acc.list_fields,
                  dialect |-> ParseDialect(acc.dialect)]
    /\ pc' = "done"
    /\ UNCHANGED <<inputVars, job, i, histogram, memVars, splitVars, fout, sumVars, error>>

\* it: the settings given on the command line; run: those of the
\* configuration file; acc: the args namespace.
InitConfig ==
    /\ prog = "config"
    /\ header = <<>>
    /\ list_columns = {}
    /\ rows = <<>>
    /\ batch_size = DEFAULT_BATCH_SIZE
    /\ pc = "config"
    /\ i = 0
    /\ histogram = EmptyCounter
    /\ columns = <<>>
    /\ stats = <<>>
    /\ IdleSplit
    /\ fout = [n \in {} |-> <<>>]
    /\ job = NoJob
    /\ it \in Settings
    /\ run \in Settings
    /\ pos = 0
    /\ emitted = <<>>
    /\ acc = ParseArgs(it)
    /\ result = [none |-> TRUE]
    /\ error = NoError

NextConfig ==
    \/ MainOverrideConfig
    \/ MainParseDialect

SpecConfig == InitConfig /\ [][NextConfig]_vars

\* The value a setting has when the command line comes first, then the
\* configuration file, then the default.
CommandLineFirst(key) == DictGet(it, key, DictGet(run, key, SettingDefaults[key]))

\* C34: every setting the job runs with is the command line's value if the
\* command line gave one, else the configuration file's if it has one, else
\* the default: for the dialect parameters, list_separator and list_fields.
C34_CommandLineOverridesConfig ==
    (prog = "config" /\ pc = "done") =>
        /\ \A k \in Range(DialectKeys) : result.dialect[k] = CommandLineFirst(k)
        /\ result.list_separator = CommandLineFirst("list_separator")
        /\ result.list_fields = CommandLineFirst("list_fields")

\* What holds: the command line comes first for the dialect parameters; for
\* list_separator and list_fields the configuration file does.
DialectCommandLineFirst ==
    (prog = "config" /\ pc = "done") =>
        /\ \A k \in Range(DialectKeys) : result.dialect[k] = CommandLineFirst(k)
        /\ result.list_separator =
               DictGet(run, "list_separator", DictGet(it, "list_separator", ";"))
        /\ result.list_fields =
               DictGet(run, "list_fields", DictGet(it, "list_fields", <<>>))

(***************************************************************************)
(* csvinsight.simple_report, the legacy line-based report                  *)
(* (specification SpecSimpleReport).                                       *)
(***************************************************************************)
\* str.rstrip(): trailing whitespace removed.
Whitespace == {9, 10, 11, 12, 13, 32}

RECURSIVE RStripWhitespace(_)
RStripWhitespace(s) ==
    IF s # <<>> /\ s[Len(s)] \in Whitespace
    THEN RStripWhitespace(SubSeq(s, 1, Len(s) - 1))
    ELSE s

\* Column.__init__ of the legacy module (csvinsight.py:155-161).
NewLegacyColumn ==
    [num_values |-> 0, num_fills |-> 0, max_len |-> 0, min_len |-> sys_maxsize, sum_len |-> 0]

\* Column._add_list(line): every part of the cell is added.
RECURSIVE LegacyAddValues(_, _)
LegacyAddValues(col, values) ==
    IF values = <<>> THEN col
    ELSE LegacyAddValues(LegacyAddValue(col, Head(values)), Tail(values))

\* col.add(val)
LegacyColumnAdd(col, isList, val) ==
    IF isList THEN LegacyAddValues(col, StrSplit(val, LIST_SEPARATOR))
    ELSE LegacyAddValue(col, val)

\* The body of the loop over the lines (csvinsight.py:306-313): the row is
\* counted, and zip(columns, row) pairs the columns with the cells there are.
SimpleReportLine(hdr, lfs, st, line) ==
    LET row == StrSplit(RStripWhitespace(line), DELIMITER)
    IN [counter |-> CounterAdd(st.counter, Len(row), 1),
        columns |-> [j \in 1..Len(hdr) |->
            IF j <= Len(row)
            THEN LegacyColumnAdd(st.columns[j], hdr[j] \in lfs, row[j])
            ELSE st.columns[j]]]

RECURSIVE SimpleReportFrom(_, _, _, _)
SimpleReportFrom(hdr, lfs, st, lines) ==
    IF lines = <<>> THEN st
    ELSE SimpleReportFrom(hdr, lfs, SimpleReportLine(hdr, lfs, st, Head(lines)), Tail(lines))

\* columns = tuple(Column(number, name, name in list_fields) ...): sys.maxint
\* is there in Python 2 only; Python 3 raises AttributeError.
SimpleReportNew ==
    /\ prog = "simple_report"
    /\ pc = "new"
    /\ \/ /\ pc' = "loop"
          /\ UNCHANGED error
       \/ /\ pc' = "done"
          /\ error' = [type |-> "AttributeError", refs |-> {}]
    /\ UNCHANGED <<inputVars, job, i, histogram, memVars, splitVars, fout, sumVars, result>>

\* for line in fin: one line.
SimpleReportStep ==
    /\ prog = "simple_report"
    /\ pc = "loop"
    /\ i < Len(rows)
    /\ LET st == SimpleReportLine(header, list_columns,
                     [counter |-> histogram, columns |-> stats], LineOf(rows[i + 1]))
       IN /\ histogram' = st.counter
          /\ stats' = st.columns
    /\ i' = i + 1
    /\ UNCHANGED <<inputVars, job, pc, columns, splitVars, fout, sumVars, result, error>>

\* finalize and get_summary of every column: the quotients divide by the
\* number of values.
SimpleReportReturn ==
    /\ prog = "simple_report"
    /\ pc = "loop"
    /\ i = Len(rows)
    /\ pc' = "done"
    /\ IF \E j \in 1..Len(header) : stats[j].num_values = 0
       THEN /\ error' = [type |-> "ZeroDivisionError", refs |-> {}]
            /\ UNCHANGED result
       ELSE /\ result' = [header |-> header, counter |-> histogram,
                          summaries |-> [j \in 1..Len(header) |->
                              [num_values |-> stats[j].num_values,
                               num_uniques |-> -1,
                               num_fills |-> stats[j].num_fills,
                               fill_rate |-> Ratio(100 * stats[j].num_fills, stats[j].num_values),
                               max_len |-> stats[j].max_len,
                               min_len |-> stats[j].min_len,
                               avg_len |-> Ratio(stats[j].sum_len, stats[j].num_values)]]]
            /\ UNCHANGED error
    /\ UNCHANGED <<inputVars, job, i, histogram, memVars, splitVars, fout, sumVars>>

InitSimpleReport ==
    /\ prog = "simple_report"
    /\ header \in Headers
    /\ list_columns \in ListColumnChoices
    /\ rows \in Readers
    /\ batch_size = DEFAULT_BATCH_SIZE
    /\ pc = "new"
    /\ i = 0
    /\ histogram = EmptyCounter
    /\ columns = <<>>
    /\ stats = [j \in 1..Len(header) |-> NewLegacyColumn]
    /\ IdleSplit
    /\ fout = [n \in {} |-> <<>>]
    /\ job = NoJob
    /\ IdleSummarize
    /\ result = [none |-> TRUE]
    /\ error = NoError

NextSimpleReport ==
    \/ SimpleReportNew
    \/ SimpleReportStep
    \/ SimpleReportReturn

SpecSimpleReport == InitSimpleReport /\ [][NextSimpleReport]_vars

\* C35: in simple_report a row that does not fit the header is counted under
\* its length and adds nothing to any column: the columns' statistics are
\* those of the rows that fit.
C35_LegacyMalformedRowOnlyCounted ==
    prog = "simple_report" =>
        LET seen == Prefix(rows, i)
            kept == WellFormedOnly(seen)
            ref == SimpleReportFrom(header, list_columns,
                       [counter |-> EmptyCounter,
                        columns |-> [j \in 1..Len(header) |-> NewLegacyColumn]],
                       [k \in 1..Len(kept) |-> LineOf(kept[k])])
        IN /\ stats = ref.columns
           /\ \A L \in 0..3 : Count(histogram, L) = RowsOfLength(seen, L)

\* What holds: every row is counted under its length.
LegacyEveryRowCounted ==
    prog = "simple_report" =>
        \A L \in 0..3 : Count(histogram, L) = RowsOfLength(Prefix(rows, i), L)

(***************************************************************************)
(* split._make_batches on its own (specification SpecBatches).             *)
(***************************************************************************)
MaxItems == 5

\* The iterables: sequences of items of which some are equal.
BatchItems == {1, 2}
Iterables == SeqsUpTo(BatchItems, MaxItems)

\* list(_make_batches(iterable, batch_size))
MakeBatchesRun ==
    /\ prog = "_make_batches"
    /\ pc = "call"
    /\ result' = [batches |-> _make_batches(it, batch_size)]
    /\ pc' = "done"
    /\ UNCHANGED <<inputVars, job, i, histogram, memVars, splitVars, fout, sumVars, error>>

InitBatches ==
    /\ prog = "_make_batches"
    /\ header = <<>>
    /\ list_columns = {}
    /\ rows = <<>>
    /\ batch_size \in BatchSizes
    /\ pc = "call"
    /\ i = 0
    /\ histogram = EmptyCounter
    /\ columns = <<>>
    /\ stats = <<>>
    /\ IdleSplit
    /\ fout = [n \in {} |-> <<>>]
    /\ job = NoJob
    /\ it \in Iterables
    /\ pos = 0
    /\ run = [value |-> <<>>, length |-> 0]
    /\ emitted = <<>>
    /\ acc = NewAcc
    /\ result = [none |-> TRUE]
    /\ error = NoError

NextBatches == MakeBatchesRun

SpecBatches == InitBatches /\ [][NextBatches]_vars

MaxUniques == 22

\* The sorted stream of the values "a", "b", ... (n of them), each once,
\* except value number twice, which is there twice, and value number thrice,
\* which is there three times.
RECURSIVE RunsFrom(_, _, _, _)
RunsFrom(k, n, twice, thrice) ==
    IF k > n THEN <<>>
    ELSE LET value == <<96 + k>>
         IN (IF k = thrice THEN <<value, value, value>>
             ELSE IF k = twice THEN <<value, value>>
             ELSE <<value>>) \o RunsFrom(k + 1, n, twice, thrice)

LongStreams ==
    {RunsFrom(1, n, twice, thrice) :
        n \in {1, MOST_COMMON - 1, MOST_COMMON, MOST_COMMON + 1, MaxUniques},
        twice \in 0..MaxUniques, thrice \in 0..MaxUniques}

\* The loop of _print_column_summary over most_common: what is left of
\* num_values after the listed counts.
RECURSIVE Remainder(_, _)
Remainder(remainder, most_common) ==
    IF most_common = <<>> THEN remainder
    ELSE Remainder(remainder - Head(most_common).frequency, Tail(most_common))

\* summarize_sorted(iterator) on the stream.
MostCommonSummarize ==
    /\ prog = "most_common"
    /\ pc = "summarize"
    /\ result' = summarize_sorted(it)
    /\ pc' = "print"
    /\ UNCHANGED <<inputVars, job, i, histogram, memVars, splitVars, fout, sumVars, error>>

\* _print_column_summary(summary, fout): the line 'Other' is printed if the
\* remainder is not zero.
PrintColumnSummary ==
    /\ prog = "most_common"
    /\ pc = "print"
    /\ LET remainder == Remainder(result.num_values, result.most_common)
       IN run' = [remainder |-> remainder, other |-> remainder # 0]
    /\ pc' = "done"
    /\ UNCHANGED <<inputVars, job, i, histogram, memVars, splitVars, fout, it, pos,
                   emitted, acc, result, error>>

InitMostCommon ==
    /\ prog = "most_common"
    /\ header = <<>>
    /\ list_columns = {}
    /\ rows = <<>>
    /\ batch_size = DEFAULT_BATCH_SIZE
    /\ pc = "summarize"
    /\ i = 0
    /\ histogram = EmptyCounter
    /\ columns = <<>>
    /\ stats = <<>>
    /\ IdleSplit
    /\ fout = [n \in {} |-> <<>>]
    /\ job = NoJob
    /\ it \in LongStreams
    /\ pos = 0
    /\ run = [value |-> <<>>, length |-> 0]
    /\ emitted = <<>>
    /\ acc = NewAcc
    /\ result = [none |-> TRUE]
    /\ error = NoError

NextMostCommon ==
    \/ MostCommonSummarize
    \/ PrintColumnSummary

SpecMostCommon == InitMostCommon /\ [][NextMostCommon]_vars

\* C37: the frequencies of most_common sum to at most num_values, and to
\* num_values exactly when there are at most MOST_COMMON distinct values; the
\* remainder the report computes is not negative, and it is zero, with no
\* 'Other' line, exactly when every distinct value is listed.
C37_MostCommonWithinNumValues ==
    (prog = "most_common" /\ pc \in {"print", "done"}) =>
        LET listed == SumSeq(Frequencies(result.most_common))
        IN /\ listed <= result.num_values
           /\ listed = result.num_values <=> result.num_uniques <= MOST_COMMON
           /\ pc = "done" =>
                  /\ run.remainder = result.num_values - listed
                  /\ run.remainder >= 0
                  /\ run.remainder = 0 <=> Len(result.most_common) = result.num_uniques
                  /\ run.other <=> run.remainder > 0

C37_Witness ==
    /\ prog = "most_common"
    /\ pc = "done"
    /\ result.num_uniques = MaxUniques
    /\ result.num_values = MaxUniques + 3
    /\ Len(result.most_common) = MOST_COMMON
    /\ result.most_common[1].frequency = 3
    /\ run.remainder = MaxUniques - MOST_COMMON
    /\ run.other

(***************************************************************************)
(* A column stream written by a writer and read back by the summarizer     *)
(* (specification SpecRoundTrip).                                          *)
(***************************************************************************)
MaxSentBatches == 2
MaxBatchValues == 2

\* The values of cells: "", "a", and "a\nb", which a quoted or escaped cell
\* can hold.
SentValues == {<<>>, <<97>>, <<97, NEWLINE, 98>>}
SentBatches == SeqsUpTo(SeqsUpTo(SentValues, MaxBatchValues), MaxSentBatches)

\* The writer's writes for the batches of `it`, one after the other.
RoundTripWrite ==
    /\ prog = "round_trip"
    /\ pc = "write"
    /\ files' = <<Concat([k \in 1..Len(it) |-> WritePy3(it[k])])>>
    /\ pc' = "read"
    /\ UNCHANGED <<inputVars, job, i, histogram, memVars, qnext, queues, unfinished, wpc,
                   wlines, closed, sent, fout, sumVars, result, error>>

\* line.rstrip(NEWLINE) for line in fin
RoundTripRead ==
    /\ prog = "round_trip"
    /\ pc = "read"
    /\ result' = [values |-> ReadValues(files[1])]
    /\ pc' = "done"
    /\ UNCHANGED <<inputVars, job, i, histogram, memVars, splitVars, fout, sumVars, error>>

InitRoundTrip ==
    /\ prog = "round_trip"
    /\ header = <<>>
    /\ list_columns = {}
    /\ rows = <<>>
    /\ batch_size = DEFAULT_BATCH_SIZE
    /\ pc = "write"
    /\ i = 0
    /\ histogram = EmptyCounter
    /\ columns = <<>>
    /\ stats = <<>>
    /\ qnext = 1
    /\ queues = <<>>
    /\ unfinished = <<>>
    /\ wpc = <<>>
    /\ wlines = <<>>
    /\ files = <<<<>>>>
    /\ closed = <<>>
    /\ sent = <<>>
    /\ fout = [n \in {} |-> <<>>]
    /\ job = NoJob
    /\ it \in SentBatches
    /\ pos = 0
    /\ run = [value |-> <<>>, length |-> 0]
    /\ emitted = <<>>
    /\ acc = NewAcc
    /\ result = [none |-> TRUE]
    /\ error = NoError

NextRoundTrip ==
    \/ RoundTripWrite
    \/ RoundTripRead

SpecRoundTrip == InitRoundTrip /\ [][NextRoundTrip]_vars

\* C38: the values read back from a column stream are the values sent to it,
\* in order, whatever the cells hold: no value more and none less.
C38_StreamReadsBackWhatWasSent ==
    (prog = "round_trip" /\ pc = "done" /\ \A k \in 1..Len(it) : it[k] # <<>>) =>
        result.values = Concat(it)

\* What holds: batches that have values, none of them with a line terminator
\* in it, are read back as they were sent.
PlainValuesReadBack ==
    (prog = "round_trip" /\ pc = "done"
        /\ \A k \in 1..Len(it) :
               it[k] # <<>> /\ \A v \in Range(it[k]) : NEWLINE \notin Range(v)) =>
        result.values = Concat(it)

(***************************************************************************)
(* The in-memory shortcut of main (specification SpecTiny).                *)
(***************************************************************************)
MaxSize == 101

\* 1e6, the divisor of st_size
MEGA == 1000000

\* size_in_mib < limit, for size_in_mib = st_size / 1e6
SizeBelow(st_size, limit) == st_size < limit * MEGA

_is_tiny(st_size, gzipped) ==
    (gzipped /\ SizeBelow(st_size, 10)) \/ SizeBelow(st_size, 100)

\* The sizes of files, in bytes: around every multiple of 1e6.
FileSizes == {k * MEGA + d : k \in 0..MaxSize, d \in {-1, 0, 1}} \cap Nat

\* _is_tiny(args.path)
MainIsTiny ==
    /\ prog = "tiny"
    /\ pc = "stat"
    /\ result' = [tiny |-> _is_tiny(it.st_size, it.gzipped)]
    /\ pc' = "branch"
    /\ UNCHANGED <<inputVars, job, i, histogram, memVars, splitVars, fout, sumVars, error>>

\* if _is_tiny(args.path) and not args.no_tiny: _run_in_memory(reader, args)
MainInMemory ==
    /\ prog = "tiny"
    /\ pc = "branch"
    /\ result.tiny /\ ~it.no_tiny
    /\ pc' = "in_memory"
    /\ UNCHANGED <<inputVars, job, i, histogram, memVars, splitVars, fout, sumVars, result,
                   error>>

\* else: _split_large_file(args.path, ...); _process_multi(...)
MainMultipart ==
    /\ prog = "tiny"
    /\ pc = "branch"
    /\ ~(result.tiny /\ ~it.no_tiny)
    /\ pc' = "multi"
    /\ UNCHANGED <<inputVars, job, i, histogram, memVars, splitVars, fout, sumVars, result,
                   error>>

InitTiny ==
    /\ prog = "tiny"
    /\ header = <<>>
    /\ list_columns = {}
    /\ rows = <<>>
    /\ batch_size = DEFAULT_BATCH_SIZE
    /\ pc = "stat"
    /\ i = 0
    /\ histogram = EmptyCounter
    /\ columns = <<>>
    /\ stats = <<>>
    /\ qnext = 1
    /\ queues = <<>>
    /\ unfinished = <<>>
    /\ wpc = <<>>
    /\ wlines = <<>>
    /\ files = <<>>
    /\ closed = <<>>
    /\ sent = <<>>
    /\ fout = [n \in {} |-> <<>>]
    /\ job = NoJob
    /\ it \in [st_size : FileSizes, gzipped : BOOLEAN, no_tiny : BOOLEAN]
    /\ pos = 0
    /\ run = [value |-> <<>>, length |-> 0]
    /\ emitted = <<>>
    /\ acc = NewAcc
    /\ result = [none |-> TRUE]
    /\ error = NoError

NextTiny ==
    \/ MainIsTiny
    \/ MainInMemory
    \/ MainMultipart

SpecTiny == InitTiny /\ [][NextTiny]_vars

\* C39: _is_tiny is True for a gzipped file only below 10 (in units of 1e6
\* bytes) and for any other file only below 100, and with --no-tiny the
\* in-memory path is never taken.
C39_GzippedThresholdIsStricter ==
    (prog = "tiny" /\ pc # "stat") =>
        /\ result.tiny =>
               IF it.gzipped THEN it.st_size < 10 * MEGA ELSE it.st_size < 100 * MEGA
        /\ it.no_tiny => pc # "in_memory"

\* What holds: one threshold, 100, for every file, gzipped or not.
TinyIsBelowHundred ==
    (prog = "tiny" /\ pc # "stat") => (result.tiny <=> it.st_size < 100 * MEGA)

\* What holds: with --no-tiny the in-memory path is never taken.
NoTinyNeverInMemory ==
    (prog = "tiny" /\ it.no_tiny) => pc # "in_memory"

(***************************************************************************)
(* csvinsight.map, the legacy map stage: _NUM_WORKERS processes share one  *)
(* line queue (specification SpecMap).                                     *)
(***************************************************************************)
MaxMapLines == 1

\* The headers and lines map() is given: a column may have the empty name,
\* and a line may have fewer cells than the header.
MapHeaders == {<<"value", "list">>, <<"value", "">>}
MapRows == {<<<<97>>, <<98>>>>, <<<<97>>>>}
MapReaders == SeqsUpTo(MapRows, MaxMapLines)
Workers == 1..(_NUM_WORKERS)

\* ColumnSplitter._write fails where the file of the column cannot be opened:
\* _open_file asserts that column_name is not empty, and under Python 3
\* column_name + '.' + suffix adds str to bytes (TypeError).
MapOpenFails(python, column_name) == python = 3 \/ column_name = ""

\* The columns of a row split_line writes before a write fails: all of them
\* when none fails.
MapWritten(python, hdr) ==
    IF \E j \in 1..Len(hdr) : MapOpenFails(python, hdr[j])
    THEN (CHOOSE j \in 1..Len(hdr) :
              /\ MapOpenFails(python, hdr[j])
              /\ \A k \in 1..(j - 1) : ~MapOpenFails(python, hdr[k])) - 1
    ELSE Len(hdr)

\* self._write(col_name, value) for the first n columns of a row:
\* fout.write(value + b'\n') on the worker's file of the column.
RECURSIVE MapWriteRow(_, _, _, _, _)
MapWriteRow(f, w, hdr, row, n) ==
    IF n = 0 THEN f
    ELSE LET g == MapWriteRow(f, w, hdr, row, n - 1)
             name == _open_file(hdr[n], "csv_insight.out", w - 1)
             old == IF name \in DOMAIN g THEN g[name] ELSE <<>>
         IN [m \in DOMAIN g \cup {name} |->
                IF m = name THEN old \o row[n] \o <<NEWLINE>> ELSE g[m]]

\* _map_worker: line = line_queue.get(); splitter.split_line(line).  The row
\* is counted; a row that fits the header is written cell by cell, and the
\* process dies of the exception of a write that fails.
MapWorkerLine(w) ==
    /\ prog = "map"
    /\ wpc[w] = "run"
    /\ queues[1] # <<>>
    /\ Head(queues[1]) # PyNone
    /\ LET line == Head(queues[1])
           row == StrSplit(RStrip(line, NEWLINE), DELIMITER)
           fits == Len(row) = Len(header)
           n == IF fits THEN MapWritten(it.python, header) ELSE 0
       IN /\ stats' = [stats EXCEPT ![w] = CounterAdd(@, Len(row), 1)]
          /\ fout' = MapWriteRow(fout, w, header, row, n)
          /\ wpc' = [wpc EXCEPT ![w] = IF fits /\ n < Len(header) THEN "dead" ELSE "run"]
    /\ queues' = <<Tail(queues[1])>>
    /\ wlines' = [wlines EXCEPT ![w] = Append(@, qnext)]
    /\ qnext' = qnext + 1
    /\ UNCHANGED <<inputVars, job, pc, i, histogram, columns, unfinished, files, closed,
                   sent, sumVars, result, error>>

\* _map_worker: line is None: break; splitter.close();
\* counter_queue.put(splitter._counter)
MapWorkerSentinel(w) ==
    /\ prog = "map"
    /\ wpc[w] = "run"
    /\ queues[1] # <<>>
    /\ Head(queues[1]) = PyNone
    /\ queues' = <<Tail(queues[1])>>
    /\ qnext' = qnext + 1
    /\ sent' = [sent EXCEPT ![w] = @ + 1]
    /\ closed' = [closed EXCEPT ![w] = TRUE]
    /\ columns' = Append(columns, stats[w])
    /\ wpc' = [wpc EXCEPT ![w] = "exited"]
    /\ UNCHANGED <<inputVars, job, pc, i, histogram, stats, unfinished, wlines, files,
                   fout, sumVars, result, error>>

\* for line in fin: line_queue.put(line), on a queue of _NUM_WORKERS * 1000
MapPutLine ==
    /\ prog = "map"
    /\ pc = "lines"
    /\ i < Len(rows)
    /\ Len(queues[1]) < _NUM_WORKERS * 1000
    /\ queues' = <<Append(queues[1], LineOf(rows[i + 1]))>>
    /\ i' = i + 1
    /\ UNCHANGED <<inputVars, job, pc, histogram, memVars, qnext, unfinished, wpc, wlines,
                   files, closed, sent, fout, sumVars, result, error>>

\* for _ in workers: line_queue.put(None)
MapPutSentinel ==
    /\ prog = "map"
    /\ \/ pc = "lines" /\ i = Len(rows)
       \/ pc = "sentinels" /\ i < _NUM_WORKERS
    /\ Len(queues[1]) < _NUM_WORKERS * 1000
    /\ queues' = <<Append(queues[1], PyNone)>>
    /\ pc' = "sentinels"
    /\ i' = IF pc = "lines" THEN 1 ELSE i + 1
    /\ UNCHANGED <<inputVars, job, histogram, memVars, qnext, unfinished, wpc, wlines,
                   files, closed, sent, fout, sumVars, result, error>>

\* for w in workers: w.join(): returns when the process has ended.
MapJoin ==
    /\ prog = "map"
    /\ \/ pc = "sentinels" /\ i = _NUM_WORKERS
       \/ pc = "join" /\ i < _NUM_WORKERS
    /\ LET k == IF pc = "sentinels" THEN 1 ELSE i + 1
       IN /\ wpc[k] \in {"exited", "dead"}
          /\ i' = k
    /\ pc' = "join"
    /\ UNCHANGED <<inputVars, job, histogram, memVars, splitVars, fout, sumVars, result,
                   error>>

\* for _ in workers: counter.update(counter_queue.get())
MapCollect ==
    /\ prog = "map"
    /\ \/ pc = "join" /\ i = _NUM_WORKERS
       \/ pc = "collect" /\ i < _NUM_WORKERS
    /\ columns # <<>>
    /\ histogram' = CounterUpdate(histogram, Head(columns))
    /\ columns' = Tail(columns)
    /\ pc' = "collect"
    /\ i' = IF pc = "join" THEN 1 ELSE i + 1
    /\ UNCHANGED <<inputVars, job, stats, splitVars, fout, sumVars, result, error>>

\* return header, counter, output_dir
MapReturn ==
    /\ prog = "map"
    /\ pc = "collect"
    /\ i = _NUM_WORKERS
    /\ result' = [header |-> header, counter |-> histogram, output_dir |-> "csv_insight.out"]
    /\ pc' = "returned"
    /\ UNCHANGED <<inputVars, job, i, histogram, memVars, splitVars, fout, sumVars, error>>

\* After w.start() of every worker: the interpreter is Python 2 or Python 3.
InitMap ==
    /\ prog = "map"
    /\ header \in MapHeaders
    /\ list_columns = {}
    /\ rows \in MapReaders
    /\ batch_size = DEFAULT_BATCH_SIZE
    /\ pc = "lines"
    /\ i = 0
    /\ histogram = EmptyCounter
    /\ columns = <<>>
    /\ stats = [w \in Workers |-> EmptyCounter]
    /\ qnext = 1
    /\ queues = <<<<>>>>
    /\ unfinished = <<>>
    /\ wpc = [w \in Workers |-> "run"]
    /\ wlines = [w \in Workers |-> <<>>]
    /\ files = <<>>
    /\ closed = [w \in Workers |-> FALSE]
    /\ sent = [w \in Workers |-> 0]
    /\ fout = [n \in {} |-> <<>>]
    /\ job = NoJob
    /\ it \in [python : {2, 3}]
    /\ pos = 0
    /\ run = [value |-> <<>>, length |-> 0]
    /\ emitted = <<>>
    /\ acc = NewAcc
    /\ result = [none |-> TRUE]
    /\ error = NoError

NextMap ==
    \/ \E w \in Workers : MapWorkerLine(w)
    \/ \E w \in Workers : MapWorkerSentinel(w)
    \/ MapPutLine
    \/ MapPutSentinel
    \/ MapJoin
    \/ MapCollect
    \/ MapReturn

SpecMap == InitMap /\ [][NextMap]_vars

\* The workers that have processed the line at position k of the queue.
ProcessedBy(k) == {w \in Workers : \E n \in 1..Len(wlines[w]) : wlines[w][n] = k}

\* No line is processed twice and no worker consumes a second sentinel.
MapSharesLines ==
    /\ \A k \in 1..Len(rows) : Cardinality(ProcessedBy(k)) <= 1
    /\ \A w \in Workers : sent[w] <= 1 /\ (wpc[w] = "exited" <=> sent[w] = 1)

\* map() has returned, every worker having consumed one sentinel and exited,
\* every line processed by one worker and counted.
MapComplete ==
    /\ pc = "returned"
    /\ \A w \in Workers : wpc[w] = "exited" /\ sent[w] = 1
    /\ \A k \in 1..Len(rows) : Cardinality(ProcessedBy(k)) = 1
    /\ CounterTotal(result.counter) = Len(rows)

\* C40: for every finite input each line is processed by exactly one worker,
\* each worker consumes exactly one sentinel and exits, and map() comes to
\* return, after all workers have exited, a counter whose total is the number
\* of lines after the header: map() never stops anywhere else.
C40_MapTerminatesWithEveryLineCounted ==
    prog = "map" =>
        /\ MapSharesLines
        /\ pc = "returned" => \A w \in Workers : wpc[w] = "exited"
        /\ ~ENABLED NextMap => MapComplete

\* What holds: under Python 2, with a name for every column, map() stops only
\* by returning, with every line counted once.
MapCompleteOnPython2 ==
    (prog = "map" /\ it.python = 2 /\ \A j \in 1..Len(header) : header[j] # ""
        /\ ~ENABLED NextMap) => MapComplete

\* What holds: lines and sentinels are never shared out twice, and where map()
\* returns, its counter has counted every line.
MapSafe ==
    prog = "map" =>
        /\ MapSharesLines
        /\ pc = "returned" => CounterTotal(result.counter) = Len(rows)

\* What holds: a worker that dies leaves map() waiting for its counter.
MapDeadWorkerNeverReturns ==
    (prog = "map" /\ \E w \in Workers : wpc[w] = "dead") => pc # "returned"

====
